---- MODULE Spec2Model ----
(***************************************************************************)
(* Student management front end: the table pipeline of StudentsManager     *)
(* (filter -> sort -> paginate over the working set loaded from the remote *)
(* store), the reloads that follow remote mutations, and the local CSV     *)
(* import of ImportExportManager (parseCSV + processStudentsThroughAPI).   *)
(*                                                                         *)
(* Text is a sequence of one-character strings, so that substring search,  *)
(* lower-casing, trimming and the CSV tokenizer work on characters as the  *)
(* JavaScript does.  A field value is a tagged record (Str / Num / Null)   *)
(* because a JavaScript field may hold a string, a number or null.         *)
(* Numbers are scaled by 100 (8.5 is 850).                                 *)
(***************************************************************************)
EXTENDS Integers, Sequences, FiniteSets, TLC

VARIABLES
    \* ---- remote store (the persistence API behind api.*) ----
    remote,            \* sequence of records, in the order the server lists them
    nextId,            \* next id the server assigns
    \* ---- StudentsManager fields ----
    allStudents,       \* this.allStudents
    filteredStudents,  \* this.filteredStudents
    students,          \* this.students (the displayed page)
    currentPage,       \* this.currentPage
    totalPages,        \* this.totalPages
    totalItems,        \* this.totalItems
    pageSize,          \* this.pageSize
    currentSort,       \* this.currentSort
    filters,           \* this.filters.filters (FilterManager)
    hometownOptions,   \* the options of the hometown dropdown
    panel,             \* the statistics strip and the analytics section
    form,              \* the student form and its modal
    searchBox,         \* the search input's text and this.searchTimeout
    selectedStudents,  \* this.selectedStudents
    notifications,     \* NotificationManager: queue, isShowing, the container
    loading,           \* LoadingManager: activeRequests and the overlay
    awaiting,          \* the editStudent and handleCrawl calls awaiting their response
    \* ---- asynchronous activity ----
    loads,             \* the loadAllStudents() calls awaiting a response, one per slot
    op,                \* the remote mutation a handler is awaiting, or NoOp
    faults,            \* remote requests that have failed so far
    \* ---- ImportExportManager: one local CSV import ----
    file,              \* the selected file's text and the "update existing" checkbox
    imp,               \* locals of processFileLocally / processStudentsThroughAPI
    importLog,         \* history: what each row's lookup found and which request followed
    scan,              \* one call of parseCSVRow: its row and the fields it returned
    \* ---- history (not program state) ----
    hist               \* what the last steps did, for stating the claims

viewVars == <<remote, nextId, allStudents, filteredStudents, students, currentPage,
              totalPages, totalItems, pageSize, currentSort, filters, hometownOptions,
              panel, form, searchBox, selectedStudents, notifications, loading, awaiting,
              loads, op, faults, hist>>

widgetVars == <<searchBox, selectedStudents, notifications, loading, awaiting>>

importVars == <<file, imp, importLog, scan>>

vars == <<viewVars, importVars>>

\* --------------------------------------------------------------------------
\* Bounds of the model
\* --------------------------------------------------------------------------
InitRecords == 2      \* records in the remote store when the page opens
MaxId == 3            \* ids the server hands out: at most MaxId records ever exist
MaxLoads == 2         \* loadAllStudents() calls in flight at once
ServerPageSize == 2   \* records per page of the server's list response
MaxFaults == 2        \* remote requests that fail in one session
MaxRows == 21         \* records of the working set when only the table is studied
MaxTableRows == 3     \* records of a working set when filtering and sorting are studied
TableSamples == 4     \* sample records those working sets are drawn from
MaxRowLen == 5        \* characters of a row handed to parseCSVRow
MaxParsedLines == 2   \* data lines of a file when the header and row checks are studied

\* --------------------------------------------------------------------------
\* Values and text
\* --------------------------------------------------------------------------
Null == [t |-> "null", s |-> <<>>, n |-> 0]
Str(s) == [t |-> "str", s |-> s, n |-> 0]
Num(n) == [t |-> "num", s |-> <<>>, n |-> n]

\* F(v), with v evaluated once.
Let(v, F(_)) == CHOOSE r \in {F(x) : x \in {v}} : TRUE

Max(a, b) == IF a > b THEN a ELSE b
Min(a, b) == IF a < b THEN a ELSE b

Range(f) == {f[i] : i \in DOMAIN f}

\* Characters in code-unit order (the part of ASCII the model uses).
Ascii == <<" ", "\"", "(", ")", ",", "-", ".",
           "0", "1", "2", "3", "4", "5", "6", "7", "8", "9", "@",
           "A", "B", "C", "D", "E", "F", "G", "H", "I", "J", "K", "L", "M",
           "N", "O", "P", "Q", "R", "S", "T", "U", "V", "W", "X", "Y", "Z",
           "a", "b", "c", "d", "e", "f", "g", "h", "i", "j", "k", "l", "m",
           "n", "o", "p", "q", "r", "s", "t", "u", "v", "w", "x", "y", "z">>

AsciiSet == Range(Ascii)

\* Position of each character of Ascii in it.
AsciiIndex == [c \in AsciiSet |-> CHOOSE i \in DOMAIN Ascii : Ascii[i] = c]

\* Rank of a character in the order JavaScript compares strings by; characters
\* outside Ascii all rank after it.
CharCode(c) == IF c \in AsciiSet THEN AsciiIndex[c] ELSE Len(Ascii) + 1

UpperA == AsciiIndex["A"]
LowerA == AsciiIndex["a"]

\* String.prototype.toLowerCase on one character.
LowerCharOf == [c \in AsciiSet |->
                   IF AsciiIndex[c] >= UpperA /\ AsciiIndex[c] < UpperA + 26
                   THEN Ascii[AsciiIndex[c] - UpperA + LowerA]
                   ELSE c]

LowerChar(c) == IF c \in AsciiSet THEN LowerCharOf[c] ELSE c

\* String.prototype.toLowerCase
toLowerCase(s) == [i \in 1..Len(s) |-> LowerChar(s[i])]

\* String.prototype.includes
includes(s, term) ==
    \E i \in 0..(Len(s) - Len(term)) : SubSeq(s, i + 1, i + Len(term)) = term

\* --------------------------------------------------------------------------
\* JavaScript comparison of two field values (the < of sortStudents)
\* --------------------------------------------------------------------------
\* a < b for two strings: code-unit lexicographic order.
StrLess(a, b) ==
    \E k \in 1..(Len(b)) :
        /\ \A j \in 1..(k - 1) : j <= Len(a) /\ a[j] = b[j]
        /\ \/ k = Len(a) + 1
           \/ k <= Len(a) /\ CharCode(a[k]) < CharCode(b[k])

Digits == <<"0", "1", "2", "3", "4", "5", "6", "7", "8", "9">>
DigitSet == Range(Digits)
IsDigit(c) == c \in DigitSet
DigitValue(c) == AsciiIndex[c] - AsciiIndex["0"]

RECURSIVE DigitsValue(_)
DigitsValue(s) ==
    IF s = <<>> THEN 0 ELSE 10 * DigitsValue(SubSeq(s, 1, Len(s) - 1)) + DigitValue(s[Len(s)])

\* ToNumber of a string operand, as the relational operators apply it when the
\* other operand is a number: "" is 0, a run of digits is its value, anything
\* else is NaN.  Numbers are scaled by 100.
IsNumericText(s) == \A i \in 1..Len(s) : IsDigit(s[i])
TextToNumber(s) == 100 * DigitsValue(s)

\* x < y as JavaScript evaluates it on two non-null operands.
JsLess(x, y) ==
    CASE x.t = "str" /\ y.t = "str" -> StrLess(x.s, y.s)
      [] x.t = "num" /\ y.t = "num" -> x.n < y.n
      [] x.t = "str" /\ y.t = "num" -> IsNumericText(x.s) /\ TextToNumber(x.s) < y.n
      [] x.t = "num" /\ y.t = "str" -> IsNumericText(y.s) /\ x.n < TextToNumber(y.s)
      [] OTHER -> FALSE

\* --------------------------------------------------------------------------
\* Numbers and dates in text (numbers are scaled by 100)
\* --------------------------------------------------------------------------
\* The digit of i % 10.
Digit(i) == Digits[(i % 10) + 1]

IsSpace(c) == c = " " \/ c = "\t" \/ c = "\r" \/ c = "\n"

\* String.prototype.trim: the text from its first to its last character that
\* is not white space.
trim(s) ==
    Let(s, LAMBDA text :
        Let({i \in DOMAIN text : ~IsSpace(text[i])}, LAMBDA inked :
            IF inked = {} THEN <<>>
            ELSE SubSeq(text, CHOOSE i \in inked : \A j \in inked : i <= j,
                              CHOOSE i \in inked : \A j \in inked : j <= i)))

\* The end of the run of digits of text that starts at position from.
DigitRunEnd(text, from) ==
    Let({i \in from..(Len(text) + 1) : i = Len(text) + 1 \/ ~IsDigit(text[i])},
        LAMBDA stops : (CHOOSE i \in stops : \A j \in stops : i <= j) - 1)

\* The longest prefix of text that reads as a decimal number: an optional
\* sign, digits, and an optional point with digits (no exponent, no
\* "Infinity": the texts of the model have none).  len is 0 when no prefix
\* does; n is the value, its third and later decimals dropped.
NumberPrefix(text) ==
    LET signed == Len(text) >= 1 /\ text[1] \in {"-", "+"}
        start == IF signed THEN 2 ELSE 1
        Cents(frac) == IF Len(frac) = 2 THEN DigitsValue(frac)
                       ELSE IF Len(frac) = 1 THEN 10 * DigitsValue(frac) ELSE 0
    IN Let(DigitRunEnd(text, start), LAMBDA intEnd :
       Let(intEnd + 1 <= Len(text) /\ text[intEnd + 1] = ".", LAMBDA hasPoint :
       Let(IF hasPoint THEN DigitRunEnd(text, intEnd + 2) ELSE intEnd, LAMBDA fracEnd :
           LET hasInt == intEnd >= start
               hasFrac == hasPoint /\ fracEnd >= intEnd + 2
               frac == IF hasFrac THEN SubSeq(text, intEnd + 2, Min(fracEnd, intEnd + 3))
                       ELSE <<>>
               whole == IF hasInt THEN DigitsValue(SubSeq(text, start, intEnd)) ELSE 0
               value == 100 * whole + Cents(frac)
           IN IF ~hasInt /\ ~hasFrac THEN [len |-> 0, n |-> 0]
              ELSE [len |-> IF hasPoint THEN Max(fracEnd, intEnd + 1) ELSE intEnd,
                    n |-> IF signed /\ text[1] = "-" THEN 0 - value ELSE value])))

\* parseFloat(text): the number its longest numeric prefix reads as, NaN when
\* there is none.
parseFloat(text) ==
    Let(NumberPrefix(trim(text)), LAMBDA p : [nan |-> p.len = 0, n |-> p.n])

\* Number(text): 0 for blank text, the number the whole text reads as, NaN
\* when some of it is left over.
ToNumber(text) ==
    Let(trim(text), LAMBDA t :
        IF t = <<>> THEN [nan |-> FALSE, n |-> 0]
        ELSE Let(NumberPrefix(t), LAMBDA p :
                 [nan |-> p.len # Len(t), n |-> IF p.len = Len(t) THEN p.n ELSE 0]))

\* The digits of a natural number.
RECURSIVE NatToText(_)
NatToText(n) ==
    IF n < 10 THEN <<Digit(n)>> ELSE Append(NatToText(n \div 10), Digit(n % 10))

\* String(n) of a number: no trailing zeros after the point.
NumberToText(n) ==
    LET a == IF n < 0 THEN 0 - n ELSE n
        sign == IF n < 0 THEN <<"-">> ELSE <<>>
        frac == IF a % 100 = 0 THEN <<>>
                ELSE IF a % 10 = 0 THEN <<".", Digit((a % 100) \div 10)>>
                ELSE <<".", Digit((a % 100) \div 10), Digit(a % 10)>>
    IN sign \o NatToText(a \div 100) \o frac

\* n.toFixed(2) of a number that is not negative.
toFixed2(n) ==
    NatToText(n \div 100) \o <<".", Digit((n % 100) \div 10), Digit(n % 10)>>

\* The days of a month.
DaysInMonth(year, month) ==
    IF month = 2
    THEN (IF (year % 4 = 0 /\ year % 100 # 0) \/ year % 400 = 0 THEN 29 ELSE 28)
    ELSE IF month \in {4, 6, 9, 11} THEN 30 ELSE 31

\* /^\d{4}-\d{2}-\d{2}$/
IsIsoDateText(text) ==
    /\ Len(text) = 10
    /\ text[5] = "-" /\ text[8] = "-"
    /\ \A i \in {1, 2, 3, 4, 6, 7, 9, 10} : IsDigit(text[i])

\* The year, month and day an ISO date text names.
DateParts(text) ==
    [year |-> DigitsValue(SubSeq(text, 1, 4)),
     month |-> DigitsValue(SubSeq(text, 6, 7)),
     day |-> DigitsValue(SubSeq(text, 9, 10))]

\* new Date(text) of an ISO date text is a date of the calendar.
IsCalendarDate(d) ==
    d.month \in 1..12 /\ d.day \in 1..DaysInMonth(d.year, d.month)

\* Dates compare as their day numbers do.
DateOrder(d) == 10000 * d.year + 100 * d.month + d.day

\* ImportExportManager.isValidDate: the format, then the round trip through
\* Date (in a time zone that is not behind UTC).
isValidDate(dateString) ==
    IF dateString = <<>> THEN TRUE
    ELSE IsIsoDateText(dateString) /\ IsCalendarDate(DateParts(dateString))

\* new Date() when the page runs.
Today == [year |-> 2026, month |-> 11, day |-> 3]

\* APP_CONFIG.VALIDATION.SCORE
ScoreMin == 0
ScoreMax == 1000

\* validateScore: TRUE when it returns null.  score is the text of the cell
\* or of the form field.
validateScore(score) ==
    IF score = <<>> THEN TRUE
    ELSE Let(ToNumber(score), LAMBDA numScore :
             ~(numScore.nan \/ numScore.n < ScoreMin \/ numScore.n > ScoreMax))

\* validateBirthDate: TRUE when it returns null.  The texts of the model are
\* ISO date texts or plainly no dates.
validateBirthDate(birthDate) ==
    IF birthDate = <<>> THEN TRUE
    ELSE IF ~(IsIsoDateText(birthDate) /\ IsCalendarDate(DateParts(birthDate))) THEN FALSE
    ELSE LET date == DateOrder(DateParts(birthDate))
             minDate == DateOrder([Today EXCEPT !.year = @ - 100])
             maxDate == DateOrder([Today EXCEPT !.year = @ - 15])
         IN ~(date < minDate \/ date > maxDate)

\* APP_CONFIG.VALIDATION.STUDENT_ID and APP_CONFIG.VALIDATION.NAME
StudentIdMinLength == 6
StudentIdMaxLength == 12
NameMinLength == 1
NameMaxLength == 50

\* [a-zA-Z0-9]
IsAlphaNumeric(c) ==
    /\ c \in AsciiSet
    /\ \/ IsDigit(c)
       \/ AsciiIndex[c] >= UpperA /\ AsciiIndex[c] < UpperA + 26
       \/ AsciiIndex[c] >= LowerA /\ AsciiIndex[c] < LowerA + 26

\* validateStudentId: TRUE when it returns null.
validateStudentId(studentId) ==
    IF studentId = <<>> THEN FALSE
    ELSE /\ Len(studentId) >= StudentIdMinLength
         /\ Len(studentId) <= StudentIdMaxLength
         /\ \A i \in DOMAIN studentId : IsAlphaNumeric(studentId[i])

\* validateName: TRUE when it returns null.
validateName(name) ==
    IF name = <<>> THEN FALSE
    ELSE ~(Len(name) < NameMinLength \/ Len(name) > NameMaxLength)

\* --------------------------------------------------------------------------
\* Grades
\* --------------------------------------------------------------------------
GradeMinA == 850
GradeMinB == 700
GradeMinC == 550
GradeMinD == 400
GradeMinF == 0

\* GRADE_CONFIG, in the order Object.entries lists it.
GRADE_CONFIG == << [grade |-> <<"A">>, min |-> GradeMinA],
                   [grade |-> <<"B">>, min |-> GradeMinB],
                   [grade |-> <<"C">>, min |-> GradeMinC],
                   [grade |-> <<"D">>, min |-> GradeMinD],
                   [grade |-> <<"F">>, min |-> GradeMinF] >>

\* The number averageScore >= config.min compares.  The averages of the
\* working set are numbers: api.parseStudent reads them with parseFloat.
AverageNumber(averageScore) == [nan |-> FALSE, n |-> averageScore.n]

\* A grading that wants an average above the minimum of a grade.
calculateGradeAbove(averageScore) ==
    IF averageScore.t = "null" THEN <<>>
    ELSE Let(AverageNumber(averageScore), LAMBDA a :
         Let({i \in DOMAIN GRADE_CONFIG : ~a.nan /\ a.n > GRADE_CONFIG[i].min},
             LAMBDA reached :
                 IF reached # {}
                 THEN GRADE_CONFIG[CHOOSE i \in reached : \A j \in reached : i <= j].grade
                 ELSE <<"F">>))

\* calculateGrade: "" for a null average, else the first grade whose minimum the
\* average reaches, else F.
calculateGrade(averageScore) ==
    IF averageScore.t = "null" THEN <<>>
    ELSE Let(AverageNumber(averageScore), LAMBDA a :
         Let({i \in DOMAIN GRADE_CONFIG : ~a.nan /\ a.n >= GRADE_CONFIG[i].min},
             LAMBDA reached :
                 IF reached # {}
                 THEN GRADE_CONFIG[CHOOSE i \in reached : \A j \in reached : i <= j].grade
                 ELSE <<"F">>))

\* gradeOrder[g] || 6 of sortStudents
GradeRank(g) ==
    CASE g = <<"A">> -> 1
      [] g = <<"B">> -> 2
      [] g = <<"C">> -> 3
      [] g = <<"D">> -> 4
      [] g = <<"F">> -> 5
      [] OTHER -> 6

\* --------------------------------------------------------------------------
\* Records
\* --------------------------------------------------------------------------
TextFields == {"student_id", "first_name", "last_name", "full_name", "email",
               "hometown", "birth_date"}
ScoreFields == {"math_score", "literature_score", "english_score", "average_score"}

\* student[key]: undefined (Null here) for a key the record does not have.
Field(student, key) ==
    IF key = "id" THEN Num(100 * student.id)
    ELSE IF key \in DOMAIN student THEN student[key]
    ELSE Null

\* student.<key>?.toLowerCase().includes(term): false for a null field.
FieldIncludes(student, key, term) ==
    LET v == Field(student, key)
    IN v.t = "str" /\ includes(toLowerCase(v.s), term)

\* --------------------------------------------------------------------------
\* StudentsManager.sortStudents
\* --------------------------------------------------------------------------
\* The key the comparator derives from a record.
SortKey(student, sortBy) ==
    IF sortBy = "grade"
    THEN Num(GradeRank(calculateGrade(Field(student, "average_score"))))
    ELSE LET v == Field(student, sortBy)
             w == IF v.t = "null" THEN Str(<<>>) ELSE v
         IN IF w.t = "str" THEN Str(toLowerCase(w.s)) ELSE w

\* The comparator's result for (a, b): -1, 0 or 1.
compare(a, b, sort) ==
    LET aVal == SortKey(a, sort.sortBy)
        bVal == SortKey(b, sort.sortBy)
        comparison == IF JsLess(aVal, bVal) THEN -1
                      ELSE IF JsLess(bVal, aVal) THEN 1 ELSE 0
    IN IF sort.order = "desc" THEN -comparison ELSE comparison

\* An insertion that puts an element before the elements it ties with.
RECURSIVE InsertSortedBeforeTies(_, _, _)
InsertSortedBeforeTies(sorted, e, sort) ==
    IF sorted = <<>> THEN <<e>>
    ELSE IF compare(sorted[Len(sorted)], e, sort) < 0
         THEN Append(sorted, e)
         ELSE Append(InsertSortedBeforeTies(SubSeq(sorted, 1, Len(sorted) - 1), e, sort),
                     sorted[Len(sorted)])

\* Array.prototype.sort is stable: an insertion sort that puts each element
\* after the last element it does not precede.
RECURSIVE InsertSorted(_, _, _)
InsertSorted(sorted, e, sort) ==
    IF sorted = <<>> THEN <<e>>
    ELSE IF compare(sorted[Len(sorted)], e, sort) <= 0
         THEN Append(sorted, e)
         ELSE Append(InsertSorted(SubSeq(sorted, 1, Len(sorted) - 1), e, sort),
                     sorted[Len(sorted)])

RECURSIVE SortFrom(_, _, _)
SortFrom(sorted, rest, sort) ==
    IF rest = <<>> THEN sorted
    ELSE SortFrom(InsertSorted(sorted, Head(rest), sort), Tail(rest), sort)

\* A descending sort made by reversing the ascending one.
sortStudentsReversing(list, sort) ==
    LET ascending == SortFrom(<<>>, list, [sort EXCEPT !.order = "asc"])
    IN IF sort.order = "desc"
       THEN [k \in DOMAIN ascending |-> ascending[Len(ascending) + 1 - k]]
       ELSE ascending

sortStudents(list, sort) == SortFrom(<<>>, list, sort)

\* --------------------------------------------------------------------------
\* StudentsManager.applyLocalFilters
\* --------------------------------------------------------------------------
\* The three filter steps; an absent filter (empty text) is skipped.
MatchesSearch(student, search) ==
    LET searchTerm == toLowerCase(search)
    IN \/ FieldIncludes(student, "student_id", searchTerm)
       \/ FieldIncludes(student, "first_name", searchTerm)
       \/ FieldIncludes(student, "last_name", searchTerm)
       \/ FieldIncludes(student, "full_name", searchTerm)
       \/ FieldIncludes(student, "email", searchTerm)
       \/ FieldIncludes(student, "hometown", searchTerm)

MatchesHometown(student, hometown) == Field(student, "hometown") = Str(hometown)

MatchesGrade(student, grade) == calculateGrade(Field(student, "average_score")) = grade

\* A filter that keeps a record when any active predicate holds.
FilterStudentsAny(all, f) ==
    LET Keep(student) ==
            \/ (f.search = <<>> /\ f.hometown = <<>> /\ f.grade = <<>>)
            \/ (f.search # <<>> /\ MatchesSearch(student, f.search))
            \/ (f.hometown # <<>> /\ MatchesHometown(student, f.hometown))
            \/ (f.grade # <<>> /\ MatchesGrade(student, f.grade))
    IN SelectSeq(all, Keep)

FilterStudents(all, f) ==
    LET Keep(student) ==
            /\ (f.search # <<>> => MatchesSearch(student, f.search))
            /\ (f.hometown # <<>> => MatchesHometown(student, f.hometown))
            /\ (f.grade # <<>> => MatchesGrade(student, f.grade))
    IN SelectSeq(all, Keep)

\* Math.ceil(a / b) for a >= 0, b >= 1
CeilDiv(a, b) == (a + b - 1) \div b

\* Array.prototype.slice(start, end)
JsSlice(list, start, end) ==
    LET len == Len(list)
        from == IF start < 0 THEN Max(len + start, 0) ELSE Min(start, len)
        to == IF end < 0 THEN Max(len + end, 0) ELSE Min(end, len)
    IN SubSeq(list, from + 1, to)

\* A clamp that steps back one page at a time.
ClampPageStepping(page, pages) ==
    IF page > pages /\ pages > 0 THEN page - 1
    ELSE IF page < 1 THEN 1
    ELSE page

\* "Ensure current page is valid"
ClampPage(page, pages) ==
    IF page > pages /\ pages > 0 THEN pages
    ELSE IF page < 1 THEN 1
    ELSE page

\* The page count of the pagination step.
PageCount(items, size) == CeilDiv(items, size)

\* A slice that begins one page late.
PageSliceShifted(list, page, size) ==
    LET startIndex == page * size
        endIndex == startIndex + size
    IN JsSlice(list, startIndex, endIndex)

\* The slice of the current page.
PageSlice(list, page, size) ==
    LET startIndex == (page - 1) * size
        endIndex == startIndex + size
    IN JsSlice(list, startIndex, endIndex)

\* The view applyLocalFilters derives from the working set and the UI state.
ComputeView(all, f, sort, page, size) ==
    LET filtered == sortStudents(FilterStudents(all, f), sort)
        items == Len(filtered)
        pages == PageCount(items, size)
        cur == ClampPage(page, pages)
    IN [filteredStudents |-> filtered,
        totalItems |-> items,
        totalPages |-> pages,
        currentPage |-> cur,
        students |-> PageSlice(filtered, cur, size)]

\* --------------------------------------------------------------------------
\* The remote store (spec section 6: list by page, create, update, delete,
\* bulk delete).  The server is not part of the repository; it is modelled by
\* its contract.
\* --------------------------------------------------------------------------
\* The form data the user submits for the k-th record of the session.
FormData(k) ==
    [student_id |-> Str(<<"S", "V", "0", "0", "0", Digit(k)>>),
     first_name |-> Str(<<"A", "n">>),
     last_name |-> Str(IF k % 2 = 1 THEN <<"L", "e">> ELSE <<"V", "u">>),
     email |-> Str(<<"a", "@", "b", ".", "c">>),
     hometown |-> IF k % 3 = 0 THEN Null
                  ELSE Str(IF k % 2 = 1 THEN <<"H", "N">> ELSE <<"H", "C", "M">>),
     average_score |-> IF k % 3 = 1 THEN Num(900)
                       ELSE IF k % 3 = 2 THEN Null ELSE Num(600)]

\* The form data of an edit.
EditInputs == {FormData(0)}

\* The record the server stores and lists for form data fd under id.
ServerRecord(id, fd) ==
    [id |-> id,
     student_id |-> fd.student_id,
     first_name |-> fd.first_name,
     last_name |-> fd.last_name,
     full_name |-> Str(fd.first_name.s \o <<" ">> \o fd.last_name.s),
     email |-> fd.email,
     hometown |-> fd.hometown,
     average_score |-> fd.average_score]

\* The response to GET /students?page=p: the p-th page of the list, and
\* has_next when more records follow.
ServerList(store, p) ==
    [ok |-> TRUE,
     items |-> JsSlice(store, (p - 1) * ServerPageSize, p * ServerPageSize),
     total |-> Len(store),
     has_next |-> p * ServerPageSize < Len(store)]

FailedResponse == [ok |-> FALSE, items |-> <<>>, total |-> 0, has_next |-> FALSE]

Ids(list) == {list[i].id : i \in DOMAIN list}

ServerCreate(store, id, fd) == Append(store, ServerRecord(id, fd))

ServerUpdate(store, id, fd) ==
    [i \in DOMAIN store |-> IF store[i].id = id THEN ServerRecord(id, fd) ELSE store[i]]

ServerDelete(store, id) ==
    LET Other(r) == r.id # id IN SelectSeq(store, Other)

\* --------------------------------------------------------------------------
\* State of the asynchronous calls
\* --------------------------------------------------------------------------
NoOp == [kind |-> "none", id |-> 0, data |-> FormData(1)]

\* A loadAllStudents() call: where it is waiting (pc), the response the server
\* has sent for its first list request (resp), the pages its fallback loop has
\* gathered (acc) and the page that loop asks for next (page), and what awaits
\* the call (cont: "refresh" for the import and clear-all handlers).
IdleLoad == [pc |-> "idle", resp |-> FailedResponse, acc |-> <<>>, page |-> 1,
             cont |-> "none"]

NewLoad(cont) == [IdleLoad EXCEPT !.pc = "health", !.cont = cont]

LoadSlots == 1..MaxLoads

InFlight == {i \in LoadSlots : loads[i].pc # "idle"}
FreeSlots == {i \in LoadSlots : loads[i].pc = "idle"}

FirstFree(ls) == CHOOSE i \in DOMAIN ls :
                     ls[i].pc = "idle" /\ \A j \in 1..(i - 1) : ls[j].pc # "idle"

\* loads after one more loadAllStudents() call has begun.
StartLoad(ls, cont) == [ls EXCEPT ![FirstFree(ls)] = NewLoad(cont)]

\* LOOP_GUARD: "Stopped loading after 100 pages"
MaxLoaderPages == 100

\* --------------------------------------------------------------------------
\* Statistics: StudentsManager.updateStats and AnalyticsManager.  An average
\* is kept as the sum and the count of its scores (count 0: no score, the
\* code's 0 or null).
\* --------------------------------------------------------------------------
GradeLetters == {<<"A">>, <<"B">>, <<"C">>, <<"D">>, <<"F">>}

SubjectKeys == <<"math_score", "literature_score", "english_score">>

\* value !== null && value !== undefined
IsDefined(student, key) == Field(student, key).t # "null"

\* value !== null, of a score of a record of the working set: parseStudent
\* gives a record every score key, with null for a score the response lacks
\* (a key the record here does not carry).
IsNotNull(student, key) == Field(student, key).t # "null"

\* student.hometown as a condition: a string that is not empty.
HasHometown(student) ==
    Field(student, "hometown").t = "str" /\ Field(student, "hometown").s # <<>>

RECURSIVE SumOf(_)
SumOf(numbers) == IF numbers = <<>> THEN 0 ELSE Head(numbers) + SumOf(Tail(numbers))

\* The scores under key of the records of list that have one.
ScoresOf(list, key) ==
    Let(SelectSeq(list, LAMBDA s : IsDefined(s, key)), LAMBDA scored :
        [i \in DOMAIN scored |-> AverageNumber(scored[i][key]).n])

\* scores.reduce((sum, score) => sum + score, 0) / scores.length
AverageOf(scores) == [sum |-> SumOf(scores), count |-> Len(scores)]

\* a > b for two averages that have scores.
AverageAbove(a, b) == a.sum * b.count > b.sum * a.count

\* StudentsManager.updateStats: the numbers of the statistics strip.
updateStats(all) ==
    [totalStudents |-> Len(all),
     avgMath |-> AverageOf(ScoresOf(all, "math_score")),
     avgLiterature |-> AverageOf(ScoresOf(all, "literature_score")),
     avgEnglish |-> AverageOf(ScoresOf(all, "english_score"))]

\* The limits of the score ranges 0-5, 5-6.5, 6.5-8 and 8-10.
RangeLimitLow == 500
RangeLimitMid == 650
RangeLimitHigh == 800

\* The range of analyzeLocalData an average falls in.
ScoreRange(averageScore) ==
    Let(AverageNumber(averageScore), LAMBDA score :
        IF ~score.nan /\ score.n < RangeLimitLow THEN "0-5"
        ELSE IF ~score.nan /\ score.n < RangeLimitMid THEN "5-6.5"
        ELSE IF ~score.nan /\ score.n < RangeLimitHigh THEN "6.5-8"
        ELSE "8-10")

\* The records whose average is defined.
Graded(list) == {i \in DOMAIN list : IsDefined(list[i], "average_score")}

\* A grade count that puts the records without an average with grade F.
GradeCountWithUngraded(list, grade) ==
    Cardinality({i \in DOMAIN list :
                    IF IsDefined(list[i], "average_score")
                    THEN calculateGrade(list[i].average_score) = grade
                    ELSE grade = <<"F">>})

\* gradeDistribution[grade] after the loop over the students.
GradeCount(list, grade) ==
    Cardinality({i \in Graded(list) :
                    calculateGrade(list[i].average_score) = grade})

\* The key hometownCount and hometownScores file a record under.
HometownKey(student) == student.hometown.s

\* AnalyticsManager.calculateScoresByHometown
calculateScoresByHometown(list) ==
    Let({i \in Graded(list) : HasHometown(list[i])}, LAMBDA scored :
        [h \in {HometownKey(list[i]) : i \in scored} |->
            AverageOf(ScoresOf(SelectSeq(list,
                                         LAMBDA s : HasHometown(s) /\ HometownKey(s) = h),
                               "average_score"))])

\* AnalyticsManager.analyzeLocalData.  performance is FALSE for the result of
\* an empty list, which has no academic_performance.
analyzeLocalData(list) ==
    IF Len(list) = 0
    THEN [performance |-> FALSE]
    ELSE [performance |-> TRUE,
          total_students |-> Len(list),
          students_with_scores |->
              Cardinality({i \in DOMAIN list :
                              \E k \in DOMAIN SubjectKeys :
                                  IsNotNull(list[i], SubjectKeys[k])}),
          grade_distribution |-> [g \in GradeLetters |-> GradeCount(list, g)],
          average_scores |-> [k \in DOMAIN SubjectKeys |->
                                  AverageOf(ScoresOf(list, SubjectKeys[k]))],
          score_ranges |-> [r \in {"0-5", "5-6.5", "6.5-8", "8-10"} |->
                               Cardinality({i \in Graded(list) :
                                               ScoreRange(list[i].average_score) = r})],
          hometownAnalysis |->
              Let({i \in DOMAIN list : HasHometown(list[i])}, LAMBDA homed :
                  [h \in {HometownKey(list[i]) : i \in homed} |->
                      Cardinality({i \in homed : HometownKey(list[i]) = h})]),
          by_hometown |-> calculateScoresByHometown(list)]

\* The thresholds of generateInsights: percentages, and the gap in scores.
ExcellentRateHigh == 20
ExcellentRateLow == 10
SubjectGapLimit == 100
CompletenessMin == 80

\* An insight about quality that is also given at the threshold itself.
QualityInsightInclusive(gradeA, total) ==
    IF gradeA * 100 >= ExcellentRateHigh * total THEN <<"high-quality">>
    ELSE IF gradeA * 100 <= ExcellentRateLow * total THEN <<"needs-attention">>
    ELSE <<>>

\* excellentRate = (gradeA / total) * 100 against the two thresholds.
QualityInsight(gradeA, total) ==
    IF gradeA * 100 > ExcellentRateHigh * total THEN <<"high-quality">>
    ELSE IF gradeA * 100 < ExcellentRateLow * total THEN <<"needs-attention">>
    ELSE <<>>

\* subjects.reduce((best, current) => current[1] > best[1] ? current : best)
RECURSIVE BestAverage(_, _)
BestAverage(best, rest) ==
    IF rest = <<>> THEN best
    ELSE BestAverage(IF AverageAbove(Head(rest), best) THEN Head(rest) ELSE best, Tail(rest))

RECURSIVE WorstAverage(_, _)
WorstAverage(worst, rest) ==
    IF rest = <<>> THEN worst
    ELSE WorstAverage(IF AverageAbove(worst, Head(rest)) THEN Head(rest) ELSE worst,
                      Tail(rest))

\* bestScore - worstScore > 1 over the subjects that have an average.
GapInsight(average_scores) ==
    Let(SelectSeq(average_scores, LAMBDA a : a.count > 0), LAMBDA subjects :
        IF subjects = <<>> THEN <<>>
        ELSE Let(BestAverage(Head(subjects), Tail(subjects)), LAMBDA best :
             Let(WorstAverage(Head(subjects), Tail(subjects)), LAMBDA worst :
                 IF best.sum * worst.count - worst.sum * best.count
                        > SubjectGapLimit * best.count * worst.count
                 THEN <<"subject-gap">> ELSE <<>>)))

\* completenessRate = (students_with_scores / total) * 100 against 80.
CompletenessInsight(with_scores, total) ==
    IF with_scores * 100 < CompletenessMin * total THEN <<"incomplete-data">> ELSE <<>>

\* AnalyticsManager.generateInsights: the insights, in the order it pushes
\* them.
generateInsights(data) ==
    IF ~data.performance THEN <<>>
    ELSE Let(IF data.total_students = 0 THEN 1 ELSE data.total_students, LAMBDA total :
             QualityInsight(data.grade_distribution[<<"A">>], total)
                 \o GapInsight(data.average_scores)
                 \o CompletenessInsight(data.students_with_scores, total))

\* The rows of the top performers list.
TopCount == 5

\* Insertion into a list sorted by (a, b) => b.average_score - a.average_score,
\* after the records of the same average.
RECURSIVE InsertByAverage(_, _)
InsertByAverage(sorted, e) ==
    IF sorted = <<>> THEN <<e>>
    ELSE IF AverageNumber(e.average_score).n > AverageNumber(Head(sorted).average_score).n
         THEN <<e>> \o sorted
         ELSE <<Head(sorted)>> \o InsertByAverage(Tail(sorted), e)

RECURSIVE SortByAverage(_, _)
SortByAverage(sorted, rest) ==
    IF rest = <<>> THEN sorted
    ELSE SortByAverage(InsertByAverage(sorted, Head(rest)), Tail(rest))

\* renderTopPerformers: the five records of the working set with the highest
\* averages.
TopPerformers(all) ==
    Let(SortByAverage(<<>>, SelectSeq(all, LAMBDA s : IsDefined(s, "average_score"))),
        LAMBDA ranked : SubSeq(ranked, 1, Min(TopCount, Len(ranked))))

\* The list loadAnalytics analyzes, of the working set and the filtered
\* list: one that follows the filters.
AnalyticsSourceFiltered(all, filtered) == filtered

\* The list loadAnalytics analyzes: studentsManager.allStudents.
AnalyticsSource(all, filtered) == all

\* What the analytics section holds before its first load.
NoAnalytics == [data |-> [performance |-> FALSE], top |-> <<>>, insights |-> <<>>,
                loaded |-> FALSE]

\* loadAnalytics with the analytics section active: analyzeLocalData, then
\* renderOverview with its top performers and its insights.
loadAnalytics(all, filtered) ==
    Let(analyzeLocalData(AnalyticsSource(all, filtered)), LAMBDA data :
        [data |-> data,
         top |-> TopPerformers(AnalyticsSource(all, filtered)),
         insights |-> generateInsights(data),
         loaded |-> TRUE])

\* The statistics strip and the analytics section when the page opens.
InitPanel == [section |-> "students", stats |-> updateStats(<<>>), analytics |-> NoAnalytics]

\* The end of applyLocalFilters: updateStats(), and loadAnalytics() when the
\* analytics section is the active one.
AfterPass(p, section, all, filtered) ==
    [section |-> section,
     stats |-> updateStats(all),
     analytics |-> IF section = "analytics" THEN loadAnalytics(all, filtered)
                   ELSE p.analytics]

\* --------------------------------------------------------------------------
\* The student form (FormHandler) in its modal (ModalManager)
\* --------------------------------------------------------------------------
\* The named inputs of the form.
FormFields == {"student_id", "first_name", "last_name", "email", "birth_date", "hometown",
               "math_score", "literature_score", "english_score"}

\* The fields initializeComponents registers a validator for.
RegisteredFields == FormFields \ {"hometown"}

\* validateEmail: TRUE when it returns null.  The pattern asks for a name
\* without white space and "@", one "@", and after it a text without white
\* space and "@" that has a "." between two of its characters.
validateEmail(email) ==
    IF email = <<>> THEN TRUE
    ELSE Let({i \in DOMAIN email : email[i] = "@"}, LAMBDA ats :
             /\ Cardinality(ats) = 1
             /\ \A i \in DOMAIN email : ~IsSpace(email[i])
             /\ \E at \in ats :
                   /\ at > 1
                   /\ \E dot \in (at + 2)..(Len(email) - 1) : email[dot] = ".")

\* this.validators[fieldName](value): TRUE when the validator returns no
\* error.
validateField(fieldName, value) ==
    CASE fieldName = "student_id" -> validateStudentId(value)
      [] fieldName \in {"first_name", "last_name"} -> validateName(value)
      [] fieldName = "email" -> validateEmail(value)
      [] fieldName = "birth_date" -> validateBirthDate(value)
      [] OTHER -> validateScore(value)

\* A validateAll that asks only the validators of the required fields.
validateAllRequired(values) ==
    \A fieldName \in {"student_id", "first_name", "last_name"} :
        validateField(fieldName, values[fieldName])

\* FormHandler.validateAll: every registered validator on its field's value.
validateAll(values) ==
    \A fieldName \in RegisteredFields : validateField(fieldName, values[fieldName])

\* formatDateForInput, on the date texts of the model.
formatDateForInput(dateString) ==
    IF dateString = <<>> THEN <<>>
    ELSE IF ~(IsIsoDateText(dateString) /\ IsCalendarDate(DateParts(dateString))) THEN <<>>
    ELSE dateString

\* FormHandler.setFormData: the fields the record has a value for are set,
\* the others keep what they held.
setFormData(values, data) ==
    [fieldName \in FormFields |->
        IF fieldName \notin DOMAIN data \/ data[fieldName].t = "null" THEN values[fieldName]
        ELSE IF fieldName = "birth_date"
             THEN (IF data[fieldName].s = <<>> THEN values[fieldName]
                   ELSE formatDateForInput(data[fieldName].s))
        ELSE IF data[fieldName].t = "num" THEN NumberToText(data[fieldName].n)
        ELSE data[fieldName].s]

\* The scores a form holds, as cleanFormData converts them with Number().
FormScores(values) ==
    Let(SelectSeq(<<"math_score", "literature_score", "english_score">>,
                  LAMBDA key : values[key] # <<>>), LAMBDA keys :
        [i \in DOMAIN keys |-> ToNumber(values[keys[i]]).n])

\* cleanFormData(formData) as the request body the server stores: an empty
\* field is left out (a null of the stored record), and the stored record's
\* average_score is the average of the scores sent.
cleanFormData(values) ==
    [student_id |-> Str(values.student_id),
     first_name |-> Str(values.first_name),
     last_name |-> Str(values.last_name),
     email |-> IF values.email = <<>> THEN Null ELSE Str(values.email),
     hometown |-> IF values.hometown = <<>> THEN Null ELSE Str(values.hometown),
     average_score |-> Let(FormScores(values), LAMBDA scores :
                           IF scores = <<>> THEN Null
                           ELSE Num(SumOf(scores) \div Len(scores)))]

\* The form before the first modal opens: closed, empty, no record in edit
\* (editing 0), and no submit yet.
NoForm == [open |-> FALSE, editing |-> 0, submit |-> "none",
           values |-> [fieldName \in FormFields |-> <<>>]]

\* --------------------------------------------------------------------------
\* Initial state: the constructor has run and its loadAllStudents() call is
\* awaiting the health check.
\* --------------------------------------------------------------------------
DefaultPageSize == 10

\* The widgets as their constructors leave them: an empty search box with no
\* timer, nothing selected, no notification, the overlay hidden and no call
\* awaiting a response.
NoMessage == ""

InitWidgets ==
    /\ searchBox = [value |-> <<>>, timeout |-> FALSE]
    /\ selectedStudents = {}
    /\ notifications = [queue |-> <<>>, isShowing |-> FALSE, shown |-> NoMessage,
                        timer |-> "none"]
    /\ loading = [activeRequests |-> 0, hidden |-> TRUE]
    /\ awaiting = {}

\* LoadingManager.show and LoadingManager.hide
LoadingShow(l) == [activeRequests |-> l.activeRequests + 1, hidden |-> FALSE]

LoadingHide(l) ==
    LET activeRequests == Max(0, l.activeRequests - 1)
    IN [activeRequests |-> activeRequests,
        hidden |-> IF activeRequests = 0 THEN TRUE ELSE l.hidden]

\* A processQueue that takes the newest message of the queue.
processQueueNewestFirst(n) ==
    IF n.queue = <<>>
    THEN [n EXCEPT !.isShowing = FALSE, !.timer = "none"]
    ELSE [queue |-> SubSeq(n.queue, 1, Len(n.queue) - 1), isShowing |-> TRUE,
          shown |-> n.queue[Len(n.queue)], timer |-> "hide"]

\* NotificationManager.processQueue: with an empty queue isShowing is cleared;
\* otherwise the head of the queue is put into the container and shown, and
\* the timer that hides it is set.
processQueue(n) ==
    IF n.queue = <<>>
    THEN [n EXCEPT !.isShowing = FALSE, !.timer = "none"]
    ELSE [queue |-> Tail(n.queue), isShowing |-> TRUE, shown |-> Head(n.queue),
          timer |-> "hide"]

\* NotificationManager.show: the message joins the queue, and the queue is
\* processed unless a notification is showing.
NotificationShow(n, message) ==
    LET queued == [n EXCEPT !.queue = Append(@, message)]
    IN IF ~n.isShowing THEN processQueue(queued) ELSE queued

InitialStore(k) == [i \in 1..k |-> ServerRecord(i, FormData(i))]

NoFilters == [search |-> <<>>, hometown |-> <<>>, grade |-> <<>>]

\* History: the working set the last finished loadAllStudents() left
\* (committed), how that call ended (lastLoad), the record count the server
\* reported to it (total), and what the pipeline pass of the last step, if a
\* user event ran one, read (pass; refresh marks the pass of loadStudents()
\* after a section switch or a crawl, page the page the table was on before).
NoPass == [user |-> FALSE, inflight |-> FALSE, read |-> <<>>, refresh |-> FALSE, page |-> 0]

\* burst: the keystrokes in the search box since its timer last fired (counted
\* up to MaxBurst) and the text the last of them left.
MaxBurst == 2

\* Calls of notifications.show in one session.
MaxShown == 4

\* Messages reported before the last crawl of a session starts.
MaxCrawls == 2

NoBurst == [keys |-> 0, last |-> <<>>]

\* notes: the messages passed to notifications.show so far, and the messages
\* the container has displayed so far.
\* opened: how the user opened the modal that is open, 0 by "add student",
\* otherwise the id of the record the edit button belongs to.
\* newest: the slot of the loadAllStudents() call that was started last and,
\* once that call is over, the working set it left.
Newest(slot) == [slot |-> slot, done |-> FALSE, items |-> <<>>]

InitHist == [committed |-> <<>>, lastLoad |-> "none", total |-> 0, pass |-> NoPass,
             burst |-> NoBurst, newest |-> Newest(1), opened |-> 0,
             notes |-> [called |-> <<>>, displayed |-> <<>>]]

InitView ==
    /\ remote = InitialStore(InitRecords)
    /\ nextId = InitRecords + 1
    /\ allStudents = <<>>
    /\ filteredStudents = <<>>
    /\ students = <<>>
    /\ currentPage = 1
    /\ totalPages = 1
    /\ totalItems = 0
    /\ pageSize = DefaultPageSize
    /\ currentSort = [sortBy |-> "student_id", order |-> "asc"]
    /\ filters = NoFilters
    /\ hometownOptions = {}
    /\ panel = InitPanel
    /\ loads = StartLoad([i \in LoadSlots |-> IdleLoad], "none")
    /\ op = NoOp
    /\ form = NoForm
    /\ InitWidgets
    /\ faults = 0
    /\ hist = InitHist

\* --------------------------------------------------------------------------
\* applyLocalFilters as a step: the view variables after a pass over `all`
\* with page `page`.
\* --------------------------------------------------------------------------
serverVars == <<remote, nextId>>
derivedVars == <<filteredStudents, students, currentPage, totalPages, totalItems, panel>>
controlVars == <<pageSize, currentSort, filters, hometownOptions>>
asyncVars == <<loads, op, faults>>

\* The pass with `section` the section that is shown.
ShowPass(all, f, sort, page, size, section) ==
    \E v \in {ComputeView(all, f, sort, page, size)} :
       /\ filteredStudents' = v.filteredStudents
       /\ totalItems' = v.totalItems
       /\ totalPages' = v.totalPages
       /\ currentPage' = v.currentPage
       /\ students' = v.students
       /\ panel' = AfterPass(panel, section, all, v.filteredStudents)

applyLocalFilters(all, f, sort, page, size) ==
    ShowPass(all, f, sort, page, size, panel.section)

\* History of a pass run by a user event, and of a step that runs none.
UserPass == [hist EXCEPT !.pass = [user |-> TRUE, inflight |-> InFlight # {},
                                   read |-> allStudents, refresh |-> FALSE,
                                   page |-> currentPage]]

Forget == [hist EXCEPT !.pass = NoPass]

\* --------------------------------------------------------------------------
\* User events on the table controls
\* --------------------------------------------------------------------------
SearchTerms == {<<>>, <<"l", "e">>}
GradeOptions == {<<>>, <<"A">>}
SortColumns == {"student_id", "grade"}
PageSizeOptions == {2}

\* A filter change that leaves the table on the page it was on.
SetFilterKeepingPage(key, value) ==
    /\ filters' = [filters EXCEPT ![key] = value]
    /\ IF value # filters[key]
       THEN /\ applyLocalFilters(allStudents, filters', currentSort, currentPage, pageSize)
            /\ hist' = UserPass
       ELSE /\ hist' = Forget
            /\ UNCHANGED <<filteredStudents, totalItems, totalPages, students, panel,
                           currentPage>>
    /\ UNCHANGED <<importVars, selectedStudents, notifications, loading, awaiting, form,
                   serverVars, allStudents, pageSize, currentSort, hometownOptions,
                   asyncVars>>

\* FilterManager.setFilter behind the three filter controls: the handler sets
\* currentPage to 1, and the pipeline runs only when the value changed.
SetFilter(key, value) ==
    /\ filters' = [filters EXCEPT ![key] = value]
    /\ IF value # filters[key]
       THEN /\ applyLocalFilters(allStudents, filters', currentSort, 1, pageSize)
            /\ hist' = UserPass
       ELSE /\ currentPage' = 1
            /\ hist' = Forget
            /\ UNCHANGED <<filteredStudents, totalItems, totalPages, students, panel>>
    /\ UNCHANGED <<importVars, selectedStudents, notifications, loading, awaiting, form,
                   serverVars, allStudents, pageSize, currentSort, hometownOptions,
                   asyncVars>>

\* The texts the user leaves in the search box.
KeyTexts == {<<>>, <<"l">>, <<"l", "e">>}

\* A keystroke that runs the search at once.
KeystrokeUndebounced ==
    \E v \in KeyTexts :
        /\ v # searchBox.value
        /\ searchBox' = [value |-> v, timeout |-> FALSE]
        /\ SetFilter("search", v)

\* The input listener of the search box: the pending timer is cleared and a
\* new one is set.
Keystroke ==
    \E v \in KeyTexts :
        /\ v # searchBox.value
        /\ searchBox' = [value |-> v, timeout |-> TRUE]
        /\ hist' = [Forget EXCEPT !.burst = [keys |-> IF searchBox.timeout
                                                       THEN Min(hist.burst.keys + 1, MaxBurst)
                                                       ELSE 1,
                                             last |-> v]]
        /\ UNCHANGED <<importVars, selectedStudents, notifications, loading, awaiting, form,
                       serverVars, allStudents, derivedVars, controlVars, asyncVars>>

\* The timer of the search box fires: the page is set to 1 and setFilter gets
\* the text the box holds then.
SearchTimer ==
    /\ searchBox.timeout
    /\ searchBox' = [searchBox EXCEPT !.timeout = FALSE]
    /\ SetFilter("search", searchBox.value)

\* The timer of the search box fires after the user typed v.
SearchInput ==
    \E v \in SearchTerms :
        /\ searchBox' = [value |-> v, timeout |-> FALSE]
        /\ SetFilter("search", v)

HometownChange ==
    \E v \in hometownOptions \cup {<<>>} :
        /\ v # filters.hometown
        /\ SetFilter("hometown", v)
        /\ UNCHANGED searchBox

GradeChange ==
    \E v \in GradeOptions :
        /\ v # filters.grade
        /\ SetFilter("grade", v)
        /\ UNCHANGED searchBox

\* clearAllFilters / FilterManager.clearFilters
ClearAllFilters ==
    /\ filters' = NoFilters
    /\ IF filters # NoFilters
       THEN /\ applyLocalFilters(allStudents, NoFilters, currentSort, 1, pageSize)
            /\ hist' = UserPass
       ELSE /\ currentPage' = 1
            /\ hist' = Forget
            /\ UNCHANGED <<filteredStudents, totalItems, totalPages, students, panel>>
    /\ searchBox' = [searchBox EXCEPT !.value = <<>>]
    /\ UNCHANGED <<importVars, selectedStudents, notifications, loading, awaiting, form,
                   serverVars, allStudents, pageSize, currentSort, hometownOptions,
                   asyncVars>>

\* Click on the sortable header of column sortBy (bindSortingEvents,
\* applySorting).
SortBy(sortBy) ==
    LET order == IF currentSort.sortBy = sortBy
                 THEN (IF currentSort.order = "asc" THEN "desc" ELSE "asc")
                 ELSE "asc"
    IN /\ currentSort' = [sortBy |-> sortBy, order |-> order]
       /\ applyLocalFilters(allStudents, filters, currentSort', currentPage, pageSize)
       /\ hist' = UserPass
       /\ UNCHANGED <<importVars, widgetVars, form, serverVars, allStudents, pageSize, filters, hometownOptions,
                      asyncVars>>

SortClick == \E sortBy \in SortColumns : SortBy(sortBy)

\* The data-page values of the enabled buttons PaginationBuilder.render draws.
PageButtons(page, pages) ==
    IF pages <= 1 THEN {}
    ELSE LET startPage == Max(1, page - 2)
             endPage == Min(pages, page + 2)
         IN (IF page <= 1 THEN {} ELSE {1, page - 1})
            \cup (IF startPage > 1 THEN {1} ELSE {})
            \cup (startPage..endPage)
            \cup (IF endPage < pages THEN {pages} ELSE {})
            \cup (IF page >= pages THEN {} ELSE {page + 1, pages})

\* Click on a page button: the button's listener (changePage -> loadStudents)
\* sets currentPage and runs the pipeline; the delegated listener of
\* bindPaginationEvents then sets the same page again if the pass moved it.
PageClick ==
    \E page \in PageButtons(currentPage, totalPages) :
        /\ page # currentPage
        /\ applyLocalFilters(allStudents, filters, currentSort, page, pageSize)
        /\ hist' = UserPass
        /\ UNCHANGED <<importVars, widgetVars, form, serverVars, allStudents, controlVars, asyncVars>>

\* Change of the page-size selector.
PageSizeChange ==
    \E size \in PageSizeOptions \cup {DefaultPageSize} :
        /\ size # pageSize
        /\ pageSize' = size
        /\ applyLocalFilters(allStudents, filters, currentSort, 1, size)
        /\ hist' = UserPass
        /\ UNCHANGED <<importVars, widgetVars, form, serverVars, allStudents, currentSort, filters, hometownOptions,
                       asyncVars>>

\* loadStudents(page = 1) while `section` is shown: set the page and run the
\* pipeline.
loadStudentsIn(page, section) ==
    /\ ShowPass(allStudents, filters, currentSort, page, pageSize, section)
    /\ hist' = [UserPass EXCEPT !.pass.refresh = TRUE]
    /\ UNCHANGED <<importVars, widgetVars, form, serverVars, allStudents, controlVars, asyncVars>>

loadStudents(page) == loadStudentsIn(page, panel.section)

\* App.showSection('students') -> loadSectionData: the students section is
\* shown (again) and refreshes its table with loadStudents().
LoadSectionData == \E page \in {1} : loadStudentsIn(page, "students")

\* App.showSection('analytics') -> loadSectionData: the analytics section is
\* shown and loads its data.
OpenAnalytics ==
    /\ panel' = [panel EXCEPT !.section = "analytics",
                              !.analytics = loadAnalytics(allStudents, filteredStudents)]
    /\ loading' = LoadingHide(LoadingShow(loading))
    /\ hist' = Forget
    /\ UNCHANGED <<importVars, searchBox, selectedStudents, notifications, awaiting, form,
                   serverVars, allStudents, filteredStudents, students,
                   currentPage, totalPages, totalItems, controlVars, asyncVars>>

\* The refresh button of the analytics section: loadAnalytics(), which
\* returns at once unless the section is the active one.
RefreshAnalytics ==
    /\ IF panel.section = "analytics"
       THEN /\ panel' = [panel EXCEPT !.analytics = loadAnalytics(allStudents, filteredStudents)]
            /\ loading' = LoadingHide(LoadingShow(loading))
       ELSE /\ panel' = panel
            /\ loading' = LoadingHide(loading)
    /\ hist' = Forget
    /\ UNCHANGED <<importVars, searchBox, selectedStudents, notifications, awaiting, form,
                   serverVars, allStudents, filteredStudents, students,
                   currentPage, totalPages, totalItems, controlVars, asyncVars>>

\* App.handleCrawl: the crawl request answered while the students section is
\* shown, and the handler refreshes the table with loadStudents().  A failed
\* crawl only shows a notification.
CrawlResponds == \E page \in {1} : loadStudents(page)

\* refreshDisplay: the pipeline once more, over the state as it is.
RefreshDisplay ==
    /\ applyLocalFilters(allStudents, filters, currentSort, currentPage, pageSize)
    /\ hist' = [hist EXCEPT !.pass = [user |-> FALSE, inflight |-> InFlight # {},
                                      read |-> allStudents, refresh |-> TRUE,
                                      page |-> currentPage]]
    /\ UNCHANGED <<importVars, widgetVars, form, serverVars, allStudents, controlVars, asyncVars>>

\* --------------------------------------------------------------------------
\* loadAllStudents
\* --------------------------------------------------------------------------
\* updateHometownFilter: the distinct non-blank hometowns of the working set.
HometownsOf(all) ==
    {all[i].hometown.s : i \in {j \in DOMAIN all :
                                  all[j].hometown.t = "str" /\ trim(all[j].hometown.s) # <<>>}}

\* A remote request fails.
Fault == faults < MaxFaults /\ faults' = faults + 1

\* The end of a loadAllStudents() call in slot i that leaves `list` as the
\* working set: the pipeline pass, and then whatever awaited the call.
\* `outcome` is "ok" when no request of the call failed, "retried" when the
\* call went on after a failed request, "failed" when its catch block ran.  The
\* handlers that await it (import, clear all) call refreshDisplay and dispatch
\* studentsUpdated, whose listener begins the next loadAllStudents().
FinishLoad(i, list, outcome, total) ==
    LET cont == loads[i].cont
        freed == [loads EXCEPT ![i] = IdleLoad]
    IN /\ applyLocalFilters(list, filters, currentSort, currentPage, pageSize)
       /\ hometownOptions' = IF outcome # "failed" THEN HometownsOf(list)
                                                  ELSE hometownOptions
       /\ hist' = [hist EXCEPT !.committed = list,
                               !.lastLoad = outcome,
                               !.total = total,
                               !.pass = NoPass,
                               !.newest = IF cont = "refresh" THEN Newest(FirstFree(freed))
                                          ELSE IF i = @.slot
                                               THEN [@ EXCEPT !.done = TRUE, !.items = list]
                                               ELSE @]
       /\ IF cont = "refresh"
          THEN /\ loads' = StartLoad(freed, "none")
               /\ allStudents' = <<>>
          ELSE /\ loads' = freed
               /\ allStudents' = list
       /\ UNCHANGED <<importVars, widgetVars, form, serverVars, pageSize, currentSort, filters, op>>

\* A step of a loadAllStudents() call that only moves the call on.
Await(i, next) ==
    /\ loads' = [loads EXCEPT ![i] = next]
    /\ hist' = Forget
    /\ UNCHANGED <<importVars, widgetVars, form, serverVars, allStudents, derivedVars, controlVars, op>>

\* api.healthCheck() answers.  A healthy server lets the call send its first
\* list request, GET /students?page=1, which the server answers from the store
\* as it is then, or with an error (the answer reaches the client in
\* Page1Response); otherwise the catch block empties the working set.
HealthResponse(i) ==
    /\ loads[i].pc = "health"
    /\ \/ /\ Await(i, [loads[i] EXCEPT !.pc = "page1", !.resp = ServerList(remote, 1)])
          /\ UNCHANGED faults
       \/ /\ Await(i, [loads[i] EXCEPT !.pc = "page1", !.resp = FailedResponse])
          /\ Fault
       \/ /\ FinishLoad(i, <<>>, "failed", 0)
          /\ Fault

\* The first list response arrives: its items become the working set; on an
\* error the call retries without parameters.
Page1Response(i) ==
    /\ loads[i].pc = "page1"
    /\ IF loads[i].resp.ok
       THEN FinishLoad(i, loads[i].resp.items, "ok", loads[i].resp.total)
       ELSE Await(i, [loads[i] EXCEPT !.pc = "noparam", !.resp = FailedResponse])
    /\ UNCHANGED faults

\* The retry without parameters answers: its items become the working set; on
\* an error the call enters the page-by-page loop.
NoParamResponse(i) ==
    /\ loads[i].pc = "noparam"
    /\ \/ /\ \E resp \in {ServerList(remote, 1)} :
                FinishLoad(i, resp.items, "retried", resp.total)
          /\ UNCHANGED faults
       \/ /\ Await(i, [loads[i] EXCEPT !.pc = "fallback", !.acc = <<>>, !.page = 1])
          /\ Fault

\* One request of the page-by-page loop answers: the loop goes on while
\* has_next is true, up to MaxLoaderPages pages; an error ends it with the
\* pages gathered so far.
FallbackResponse(i) ==
    /\ loads[i].pc = "fallback"
    /\ \/ /\ LET resp == ServerList(remote, loads[i].page)
                 acc == loads[i].acc \o resp.items
                 page == loads[i].page + 1
             IN IF resp.has_next /\ page <= MaxLoaderPages
                THEN Await(i, [loads[i] EXCEPT !.acc = acc, !.page = page])
                ELSE FinishLoad(i, acc, "retried", resp.total)
          /\ UNCHANGED faults
       \/ /\ FinishLoad(i, loads[i].acc, "retried", Len(remote))
          /\ Fault

\* --------------------------------------------------------------------------
\* Remote mutations: the form (create / update), the delete confirmation, the
\* import and the clear-all handlers.
\* --------------------------------------------------------------------------
\* The rows the table shows: none while the loading row or the empty state is
\* displayed.
ShownIds == IF allStudents = <<>> THEN {} ELSE Ids(students)

\* Records one import adds at most.
ImportBatch == 2

Request(o) ==
    /\ op = NoOp
    /\ op' = o
    /\ hist' = Forget
    /\ UNCHANGED <<importVars, widgetVars, form, serverVars, allStudents, derivedVars, controlVars, loads, faults>>

\* handleFormSubmit with no editingStudent.
SubmitCreate ==
    \E fd \in {FormData(nextId)} : Request([kind |-> "create", id |-> 0, data |-> fd])

\* handleFormSubmit with the record a row's edit button opened.
SubmitUpdate ==
    \E id \in ShownIds, fd \in EditInputs :
        Request([kind |-> "update", id |-> id, data |-> fd])

\* The texts the user types into the fields of the form.
FormTexts(fieldName) ==
    CASE fieldName = "student_id" -> {<<"S", "V", "0", "0", "0", "9">>}
      [] fieldName = "first_name" -> {<<"A", "n">>}
      [] fieldName = "last_name" -> {<<"L", "e">>}
      [] fieldName = "email" -> {<<"a", "b">>}
      [] fieldName = "birth_date" -> {<<"2", "0", "2", "0", "-", "0", "1", "-", "0", "1">>}
      [] fieldName = "math_score" -> {<<"1", "1">>}
      [] OTHER -> {}

\* openAddModal, by the add button of the page behind the modal.
OpenAddModal ==
    /\ ~form.open
    /\ form' = [NoForm EXCEPT !.open = TRUE]
    /\ hist' = [Forget EXCEPT !.opened = 0]
    /\ UNCHANGED <<importVars, widgetVars, serverVars, allStudents, derivedVars, controlVars, asyncVars>>

\* editStudent with the id of a row's edit button, once api.getStudent has
\* answered with the record.
OpenEditModal ==
    \E id \in ShownIds \cap Ids(remote) :
        \E i \in {j \in DOMAIN remote : remote[j].id = id} :
            /\ ~form.open
            /\ form' = [form EXCEPT !.open = TRUE, !.editing = id,
                                    !.values = setFormData(@, remote[i])]
            /\ hist' = [Forget EXCEPT !.opened = id]
            /\ UNCHANGED <<importVars, widgetVars, serverVars, allStudents, derivedVars, controlVars,
                           asyncVars>>

\* editStudent with the id of a row's edit button, up to its await: the
\* overlay is shown and api.getStudent is sent.
EditStudent ==
    \E id \in ShownIds :
        /\ ~form.open
        /\ [kind |-> "edit", id |-> id] \notin awaiting
        /\ awaiting' = awaiting \cup {[kind |-> "edit", id |-> id]}
        /\ loading' = LoadingShow(loading)
        /\ hist' = Forget
        /\ UNCHANGED <<importVars, searchBox, selectedStudents, notifications, form,
                       serverVars, allStudents, derivedVars, controlVars, asyncVars>>

\* api.getStudent answers with the record: it becomes editingStudent, its
\* values fill the form and the modal is shown; the finally block hides the
\* overlay.
GetStudentResponds ==
    \E call \in awaiting :
        \E i \in {j \in DOMAIN remote : remote[j].id = call.id} :
            /\ call.kind = "edit"
            /\ awaiting' = awaiting \ {call}
            /\ form' = [form EXCEPT !.open = TRUE, !.editing = call.id,
                                    !.values = setFormData(@, remote[i])]
            /\ loading' = LoadingHide(loading)
            /\ hist' = [Forget EXCEPT !.opened = IF form.open THEN @ ELSE call.id]
            /\ UNCHANGED <<importVars, searchBox, selectedStudents, notifications,
                           serverVars, allStudents, derivedVars, controlVars, asyncVars>>

\* The history after a step that takes the notifications from n to after and,
\* when called is a message, passes it to notifications.show.
Noted(h, n, after, called) ==
    [h EXCEPT !.notes.called = @ \o called,
              !.notes.displayed = IF after.timer = "hide" /\ n.timer # "hide"
                                  THEN Append(@, after.shown) ELSE @]

\* api.getStudent fails: the catch block reports it and the finally block
\* hides the overlay.
GetStudentFails ==
    \E call \in awaiting :
        /\ call.kind = "edit"
        /\ Fault
        /\ awaiting' = awaiting \ {call}
        /\ notifications' = NotificationShow(notifications, "edit failed")
        /\ loading' = LoadingHide(loading)
        /\ hist' = Noted(Forget, notifications, notifications', <<"edit failed">>)
        /\ UNCHANGED <<importVars, searchBox, selectedStudents, form, serverVars,
                       allStudents, derivedVars, controlVars, loads, op>>

\* The messages handleCrawl reports: success, a timeout, another error.
CrawlMessages == {"crawled", "crawl timeout", "crawl failed"}

\* handleCrawl up to its await: the overlay is shown and the crawl request is
\* sent. A crawl starts while fewer than MaxCrawls messages have been
\* reported, which caps the crawls of a session.
HandleCrawl ==
    /\ [kind |-> "crawl", id |-> 0] \notin awaiting
    /\ Len(hist.notes.called) < MaxCrawls
    /\ awaiting' = awaiting \cup {[kind |-> "crawl", id |-> 0]}
    /\ loading' = LoadingShow(loading)
    /\ hist' = Forget
    /\ UNCHANGED <<importVars, searchBox, selectedStudents, notifications, form,
                   serverVars, allStudents, derivedVars, controlVars, asyncVars>>

\* handleCrawl after its await: the try or the catch block reports the
\* outcome and the finally block hides the overlay. The reload of the table
\* that follows a successful crawl in the students section is CrawlResponds.
CrawlSettles ==
    \E call \in awaiting, message \in CrawlMessages :
        /\ call.kind = "crawl"
        /\ awaiting' = awaiting \ {call}
        /\ notifications' = NotificationShow(notifications, message)
        /\ loading' = LoadingHide(loading)
        /\ hist' = Noted(Forget, notifications, notifications', <<message>>)
        /\ UNCHANGED <<importVars, searchBox, selectedStudents, form, serverVars,
                       allStudents, derivedVars, controlVars, asyncVars>>

\* The user types a text into a field of the open form, or empties it.
FormInput ==
    \E fieldName \in FormFields :
        \E value \in FormTexts(fieldName) \cup {<<>>} :
            /\ form.open
            /\ value # form.values[fieldName]
            /\ form' = [form EXCEPT !.values[fieldName] = value]
            /\ hist' = Forget
            /\ UNCHANGED <<importVars, widgetVars, serverVars, allStudents, derivedVars, controlVars,
                           asyncVars>>

\* FormHandler.handleSubmit with the given result of validateAll: a form that
\* fails it gets the error notification and nothing else; one that passes
\* goes to onSubmit, handleFormSubmit, which awaits the update of the record
\* in edit or the create.
handleSubmit(valid) ==
    /\ form.open
    /\ hist' = Forget
    /\ IF ~valid
       THEN /\ form' = [form EXCEPT !.submit = "invalid"]
            /\ UNCHANGED op
       ELSE /\ op = NoOp
            /\ op' = [kind |-> IF form.editing = 0 THEN "create" ELSE "update",
                      id |-> form.editing, data |-> cleanFormData(form.values)]
            /\ form' = [form EXCEPT !.submit = "sent"]
    /\ UNCHANGED <<importVars, widgetVars, serverVars, allStudents, derivedVars, controlVars, loads, faults>>

\* The submit event of the form.
FormSubmit == handleSubmit(validateAll(form.values))

\* ModalManager.hide by the close button, the cancel button or a click on the
\* backdrop.
HideModal ==
    /\ form.open
    /\ form' = [form EXCEPT !.open = FALSE]
    /\ hist' = Forget
    /\ UNCHANGED <<importVars, widgetVars, serverVars, allStudents, derivedVars, controlVars, asyncVars>>

\* The messages the handlers pass to notifications.show.
Messages == {"saved", "failed"}

\* A handler calls notifications.show (success, error, warning or info).
Notify ==
    \E message \in Messages :
        /\ Len(hist.notes.called) < MaxShown
        /\ notifications' = NotificationShow(notifications, message)
        /\ hist' = Noted(Forget, notifications, notifications', <<message>>)
        /\ UNCHANGED <<importVars, searchBox, selectedStudents, loading, awaiting, form,
                       serverVars, allStudents, derivedVars, controlVars, asyncVars>>

\* The timer of processQueue fires after the duration: the container loses
\* its "show" class and the timer of the animation is set.
HideTimer ==
    /\ notifications.timer = "hide"
    /\ notifications' = [notifications EXCEPT !.shown = NoMessage, !.timer = "next"]
    /\ hist' = Forget
    /\ UNCHANGED <<importVars, searchBox, selectedStudents, loading, awaiting, form,
                   serverVars, allStudents, derivedVars, controlVars, asyncVars>>

\* The timer of the animation fires: processQueue once more.
NextTimer ==
    /\ notifications.timer = "next"
    /\ notifications' = processQueue(notifications)
    /\ hist' = Noted(Forget, notifications, notifications', <<>>)
    /\ UNCHANGED <<importVars, searchBox, selectedStudents, loading, awaiting, form,
                   serverVars, allStudents, derivedVars, controlVars, asyncVars>>

\* toggleStudentSelection by the checkbox of a row the table shows.
ToggleStudentSelection ==
    \E id \in ShownIds, isSelected \in BOOLEAN :
        /\ isSelected <=> id \notin selectedStudents
        /\ selectedStudents' = IF isSelected THEN selectedStudents \cup {id}
                                             ELSE selectedStudents \ {id}
        /\ hist' = Forget
        /\ UNCHANGED <<importVars, searchBox, notifications, loading, awaiting, form,
                       serverVars, allStudents, derivedVars, controlVars, asyncVars>>

\* toggleSelectAll by the checkbox of the table header: the ids of
\* this.students are added or removed.
ToggleSelectAll ==
    \E selectAll \in BOOLEAN :
        /\ selectedStudents' = IF selectAll THEN selectedStudents \cup Ids(students)
                                            ELSE selectedStudents \ Ids(students)
        /\ selectedStudents' # selectedStudents
        /\ hist' = Forget
        /\ UNCHANGED <<importVars, searchBox, notifications, loading, awaiting, form,
                       serverVars, allStudents, derivedVars, controlVars, asyncVars>>

\* handleExportSelected: the records of the working set whose id is selected.
SelectedForExport ==
    SelectSeq(allStudents, LAMBDA s : s.id \in selectedStudents)

\* updateExportSelectedButton: the count the export button shows.
SelectedCount == Cardinality(selectedStudents)

\* deleteStudent and the confirmation of the delete dialog.
ConfirmDelete ==
    \E id \in ShownIds \cap Ids(allStudents) :
        Request([kind |-> "delete", id |-> id, data |-> FormData(1)])

\* handleClearAll after the confirm dialog.
ConfirmClearAll ==
    \E o \in {[kind |-> "clearAll", id |-> 0, data |-> FormData(1)]} : Request(o)

\* handleImport with a selected file.
StartImport ==
    \E o \in {[kind |-> "import", id |-> 0, data |-> FormData(1)]} : Request(o)

\* The store after an import that adds n records.
RECURSIVE Imported(_, _, _)
Imported(store, id, n) ==
    IF n = 0 THEN store ELSE Imported(ServerCreate(store, id, FormData(id)), id + 1, n - 1)

\* The mutation fails: the handler's catch block reports it.
OpFails ==
    /\ op # NoOp
    /\ op' = NoOp
    /\ Fault
    /\ hist' = Forget
    /\ UNCHANGED <<importVars, widgetVars, form, serverVars, allStudents, derivedVars, controlVars, loads>>

\* A create, update or delete succeeds: the handler dispatches its event, whose
\* listener calls loadAllStudents(), and then calls loadAllStudents() itself.
SingleOpSucceeds ==
    /\ op.kind \in {"create", "update", "delete"}
    /\ Cardinality(FreeSlots) >= 2
    /\ op.kind = "create" => nextId <= MaxId
    /\ op.kind \in {"update", "delete"} => op.id \in Ids(remote)
    /\ remote' = CASE op.kind = "create" -> ServerCreate(remote, nextId, op.data)
                   [] op.kind = "update" -> ServerUpdate(remote, op.id, op.data)
                   [] op.kind = "delete" -> ServerDelete(remote, op.id)
    /\ nextId' = IF op.kind = "create" THEN nextId + 1 ELSE nextId
    /\ loads' = StartLoad(StartLoad(loads, "none"), "none")
    /\ allStudents' = <<>>
    /\ op' = NoOp
    /\ form' = IF op.kind = "delete" THEN form ELSE [form EXCEPT !.open = FALSE]
    /\ hist' = [Forget EXCEPT !.newest = Newest(FirstFree(StartLoad(loads, "none")))]
    /\ UNCHANGED <<importVars, widgetVars, derivedVars, controlVars, faults>>

\* An import or a bulk delete succeeds: the handler awaits loadAllStudents().
BulkOpSucceeds ==
    /\ op.kind \in {"import", "clearAll"}
    /\ FreeSlots # {}
    /\ \E n \in 0..Min(ImportBatch, MaxId + 1 - nextId) :
          /\ op.kind = "clearAll" => n = 0
          /\ remote' = IF op.kind = "clearAll" THEN <<>> ELSE Imported(remote, nextId, n)
          /\ nextId' = nextId + n
    /\ loads' = StartLoad(loads, "refresh")
    /\ allStudents' = <<>>
    /\ op' = NoOp
    /\ hist' = [Forget EXCEPT !.newest = Newest(FirstFree(loads))]
    /\ UNCHANGED <<importVars, widgetVars, form, derivedVars, controlVars, faults>>

\* --------------------------------------------------------------------------
\* Local CSV import: parseCSVRow, parseCSV
\* --------------------------------------------------------------------------
\* String.prototype.split on a one-character separator: the pieces between
\* consecutive separators.
split(s, sep) ==
    Let(s, LAMBDA text :
        Let(<<0>> \o SelectSeq([i \in 1..Len(text) |-> i], LAMBDA i : text[i] = sep)
                 \o <<Len(text) + 1>>,
            LAMBDA cuts :
                [k \in 1..(Len(cuts) - 1) |-> SubSeq(text, cuts[k] + 1, cuts[k + 1] - 1)]))

\* Array.prototype.join
RECURSIVE join(_, _)
join(parts, sep) ==
    IF parts = <<>> THEN <<>>
    ELSE IF Len(parts) = 1 THEN parts[1]
    ELSE parts[1] \o sep \o join(Tail(parts), sep)

\* A tokenizer that splits at every comma, quoted or not.
RECURSIVE ParseRowFromAnyComma(_, _, _, _, _)
ParseRowFromAnyComma(row, i, current, inQuotes, result) ==
    IF i > Len(row) THEN Append(result, trim(current))
    ELSE IF row[i] = "\""
         THEN IF inQuotes /\ i + 1 <= Len(row) /\ row[i + 1] = "\""
              THEN ParseRowFromAnyComma(row, i + 2, Append(current, "\""), inQuotes, result)
              ELSE ParseRowFromAnyComma(row, i + 1, current, ~inQuotes, result)
    ELSE IF row[i] = ","
         THEN ParseRowFromAnyComma(row, i + 1, <<>>, inQuotes, Append(result, trim(current)))
    ELSE ParseRowFromAnyComma(row, i + 1, Append(current, row[i]), inQuotes, result)

\* The body of the tokenizer's while loop at position i (1-based) of row.  skip
\* is set when the body has advanced i past the second quote of a pair.
TokenStep(row, i, st) ==
    IF st.skip THEN [st EXCEPT !.skip = FALSE]
    ELSE IF row[i] = "\""
         THEN IF st.inQuotes /\ i + 1 <= Len(row) /\ row[i + 1] = "\""
              THEN [st EXCEPT !.current = Append(@, "\""), !.skip = TRUE]
              ELSE [st EXCEPT !.inQuotes = ~@]
    ELSE IF row[i] = "," /\ ~st.inQuotes
         THEN [st EXCEPT !.result = Append(@, trim(st.current)), !.current = <<>>]
    ELSE [st EXCEPT !.current = Append(@, row[i])]

\* The while loop over the positions lo..hi, first half then second half.
RECURSIVE TokenLoop(_, _, _, _)
TokenLoop(row, lo, hi, st) ==
    IF lo > hi THEN st
    ELSE IF lo = hi THEN TokenStep(row, lo, st)
    ELSE Let(TokenLoop(row, lo, (lo + hi) \div 2, st), LAMBDA half :
             TokenLoop(row, (lo + hi) \div 2 + 1, hi, half))

\* The tokenizer from position i (1-based) of row on, and its last push.
ParseRowFrom(row, i, current, inQuotes, result) ==
    Let(TokenLoop(row, i, Len(row),
                  [current |-> current, inQuotes |-> inQuotes, result |-> result,
                   skip |-> FALSE]),
        LAMBDA st : Append(st.result, trim(st.current)))

parseCSVRow(row) == Let(row, LAMBDA text : ParseRowFrom(text, 1, <<>>, FALSE, <<>>))

\* Column labels of the header row.
LabelStudentId == <<"M", "ã", " ", "s", "ố", " ", "s", "i", "n", "h", " ", "v", "i", "ê", "n">>
LabelFullName == <<"H", "ọ", " ", "t", "ê", "n">>
LabelEmail == <<"E", "m", "a", "i", "l">>
LabelHometown == <<"Q", "u", "ê", " ", "q", "u", "á", "n">>
LabelBirthDate == <<"N", "g", "à", "y", " ", "s", "i", "n", "h">>
\* The score labels, their letters D-with-stroke and a-with-breve written D and a.
LabelMath == <<"D", "i", "ể", "m", " ", "T", "o", "á", "n">>
LabelLiterature == <<"D", "i", "ể", "m", " ", "V", "a", "n">>
LabelEnglish == <<"D", "i", "ể", "m", " ", "A", "n", "h">>
LabelAverage == <<"D", "i", "ể", "m", " ", "t", "r", "u", "n", "g", " ", "b", "ì", "n", "h">>

requiredHeaders == <<LabelStudentId, LabelFullName, LabelEmail>>

\* An entry of the errors list (messages without their diacritics).  `line` is
\* history: the line of the file the
\* entry is about (0 for an entry about the document as a whole).
RowError(row, message, line) == [row |-> row, message |-> message, line |-> line]

NoStudent ==
    [student_id |-> <<>>, first_name |-> <<>>, last_name |-> <<>>, full_name |-> <<>>,
     email |-> <<>>, birth_date |-> Null, hometown |-> Null, math_score |-> 0,
     literature_score |-> 0, english_score |-> 0, average_score |-> <<>>, line |-> 0]

\* A score the parser turns away: isNaN(score) || score < 0 || score > 10.
ScoreRefused(score) == score.nan \/ score.n < 0 \/ score.n > 1000

\* One data row of parseCSV's loop: skipped, rejected with a message, or
\* turned into a student.  A header cell that carries none of the labels of
\* the switch leaves the student as it is.
ParseDataRow(headers, values) ==
    LET HasParens(val) == includes(val, <<"(">>) /\ includes(val, <<")">>)
        Columns(label) == {c \in DOMAIN headers : headers[c] = label}
        Last(cs) == CHOOSE c \in cs : \A d \in cs : d <= c
        Cell(label) == trim(values[Last(Columns(label))])
        value == Cell(LabelFullName)
        nameParts == split(trim(value), " ")
        first_name == IF Len(nameParts) >= 2
                      THEN join(SubSeq(nameParts, 1, Len(nameParts) - 1), <<" ">>)
                      ELSE value
        last_name == IF Len(nameParts) >= 2 THEN nameParts[Len(nameParts)] ELSE <<>>
        Throws(c) ==
            \/ /\ headers[c] = LabelBirthDate
               /\ trim(values[c]) # <<>>
               /\ ~isValidDate(trim(values[c]))
            \/ /\ headers[c] \in {LabelMath, LabelLiterature, LabelEnglish}
               /\ ScoreRefused(parseFloat(trim(values[c])))
        thrown == {c \in DOMAIN headers : Throws(c)}
        first == CHOOSE c \in thrown : \A d \in thrown : c <= d
        Score(label) == IF Columns(label) = {} THEN 0 ELSE parseFloat(Cell(label)).n
        sum == Score(LabelMath) + Score(LabelLiterature) + Score(LabelEnglish)
        Skip == [kind |-> "skip", message |-> "", student |-> NoStudent]
        Reject(message) == [kind |-> "error", message |-> message, student |-> NoStudent]
    IN IF \E c \in DOMAIN values : HasParens(values[c]) THEN Skip
       ELSE IF \A c \in DOMAIN values : trim(values[c]) = <<>> THEN Skip
       ELSE IF Len(values) # Len(headers) THEN Reject("So cot khong khop")
       ELSE IF thrown # {}
            THEN Reject(CASE headers[first] = LabelBirthDate ->
                                 "Loi xu ly du lieu: Ngay sinh khong hop le"
                          [] headers[first] = LabelMath ->
                                 "Loi xu ly du lieu: Diem Toan khong hop le"
                          [] headers[first] = LabelLiterature ->
                                 "Loi xu ly du lieu: Diem Van khong hop le"
                          [] OTHER -> "Loi xu ly du lieu: Diem Anh khong hop le")
       ELSE IF Cell(LabelStudentId) = <<>>
            THEN Reject("Ma so sinh vien khong duoc de trong")
       ELSE IF first_name = <<>> THEN Reject("Ho ten khong duoc de trong")
       ELSE IF Cell(LabelEmail) = <<>> \/ ~includes(Cell(LabelEmail), <<"@">>)
            THEN Reject("Email khong hop le")
       ELSE [kind |-> "student", message |-> "",
             student |-> [student_id |-> Cell(LabelStudentId),
                          first_name |-> first_name,
                          last_name |-> last_name,
                          full_name |-> value,
                          email |-> Cell(LabelEmail),
                          birth_date |-> IF Columns(LabelBirthDate) = {} THEN Null
                                         ELSE Str(Cell(LabelBirthDate)),
                          hometown |-> IF Columns(LabelHometown) = {} THEN Null
                                       ELSE Str(Cell(LabelHometown)),
                          math_score |-> Score(LabelMath),
                          literature_score |-> Score(LabelLiterature),
                          english_score |-> Score(LabelEnglish),
                          average_score |-> toFixed2((2 * sum + 3) \div 6),
                          line |-> 0]]

\* A row loop that gives up at the first rejected row.
RECURSIVE ParseRowsStopping(_, _, _, _, _)
ParseRowsStopping(lines, numbers, headers, idx, acc) ==
    IF idx > Len(lines) THEN acc
    ELSE Let(parseCSVRow(lines[idx]), LAMBDA values :
         Let(ParseDataRow(headers, values), LAMBDA out :
             CASE out.kind = "skip" ->
                      ParseRowsStopping(lines, numbers, headers, idx + 1, acc)
               [] out.kind = "error" ->
                      [acc EXCEPT !.errors =
                           Append(@, RowError(idx, out.message, numbers[idx]))]
               [] out.kind = "student" ->
                      ParseRowsStopping(lines, numbers, headers, idx + 1,
                          [acc EXCEPT !.students =
                               Append(@, [out.student EXCEPT !.line = numbers[idx]])])))

\* parseCSV's loop over the data rows from lines[idx] on (1-based; the code's
\* i is idx - 1 and its rowNum is i + 1).  numbers[idx] is the line of the file
\* that lines[idx] was.
RECURSIVE ParseRows(_, _, _, _, _)
ParseRows(lines, numbers, headers, idx, acc) ==
    IF idx > Len(lines) THEN acc
    ELSE LET rowNum == idx
             Collect(out) ==
                 CASE out.kind = "skip" -> acc
                   [] out.kind = "error" ->
                        [acc EXCEPT !.errors =
                             Append(@, RowError(rowNum, out.message, numbers[idx]))]
                   [] out.kind = "student" ->
                        [acc EXCEPT !.students =
                             Append(@, [out.student EXCEPT !.line = numbers[idx]])]
         IN Let(parseCSVRow(lines[idx]), LAMBDA values :
            Let(ParseDataRow(headers, values), LAMBDA out :
            Let(Collect(out), LAMBDA next :
                ParseRows(lines, numbers, headers, idx + 1, next))))

\* A header check that wants the required columns first and in their order.
ParseLinesOrdered(lines, numbers) ==
    IF Len(lines) < 2
    THEN [students |-> <<>>,
          errors |-> <<RowError(1, "File CSV phai co it nhat 2 dong", 0)>>]
    ELSE Let(parseCSVRow(lines[1]), LAMBDA headers :
             IF \E k \in DOMAIN requiredHeaders :
                   k > Len(headers) \/ headers[k] # requiredHeaders[k]
             THEN [students |-> <<>>,
                   errors |-> <<RowError(1, "Thieu cac cot bat buoc", 0)>>]
             ELSE ParseRows(lines, numbers, headers, 2,
                            [students |-> <<>>, errors |-> <<>>]))

\* parseCSV after the split into lines: the header checks and the row loop.
ParseLines(lines, numbers) ==
    IF Len(lines) < 2
    THEN [students |-> <<>>,
          errors |-> <<RowError(1, "File CSV phai co it nhat 2 dong", 0)>>]
    ELSE Let(parseCSVRow(lines[1]), LAMBDA headers :
             IF \E k \in DOMAIN requiredHeaders : requiredHeaders[k] \notin Range(headers)
             THEN [students |-> <<>>,
                   errors |-> <<RowError(1, "Thieu cac cot bat buoc", 0)>>]
             ELSE ParseRows(lines, numbers, headers, 2,
                            [students |-> <<>>, errors |-> <<>>]))

\* The numbers of the lines of raw that are not blank.
KeptNumbers(raw) ==
    LET Kept(k) == trim(raw[k]) # <<>>
    IN SelectSeq([k \in DOMAIN raw |-> k], Kept)

\* The byte-order mark U+FEFF, one character, written as a name.
ByteOrderMark == "BOM"

\* content.replace(/^\uFEFF/, '')
StripByteOrderMark(content) ==
    IF content # <<>> /\ content[1] = ByteOrderMark THEN Tail(content) ELSE content

\* parseCSV: the byte-order mark removed,
\* content.split('\n').map(line => line.trim()).filter(line => line),
\* then the header checks and the row loop.
parseCSV(content) ==
    IF content = <<>>
    THEN [students |-> <<>>,
          errors |-> <<RowError(1, "File content is empty or invalid", 0)>>]
    ELSE Let(split(StripByteOrderMark(content), "\n"), LAMBDA raw :
         Let(KeptNumbers(raw), LAMBDA numbers :
         Let(SelectSeq([k \in DOMAIN raw |-> trim(raw[k])], LAMBDA line : line # <<>>),
             LAMBDA lines : ParseLines(lines, numbers))))

\* --------------------------------------------------------------------------
\* CSV export: generateCSV
\* --------------------------------------------------------------------------
\* JavaScript's falsy values among the field values: null, "" and 0.
IsFalsy(v) ==
    \/ v.t = "null"
    \/ v.t = "str" /\ v.s = <<>>
    \/ v.t = "num" /\ v.n = 0

\* String(v || fallback)
CellText(v, fallback) ==
    IF IsFalsy(v) THEN fallback
    ELSE IF v.t = "str" THEN v.s ELSE NumberToText(v.n)

\* `"${String(cell).replace(/"/g, '""')}"`
RECURSIVE EscapeQuotes(_)
EscapeQuotes(text) ==
    IF text = <<>> THEN <<>>
    ELSE (IF Head(text) = "\"" THEN <<"\"", "\"">> ELSE <<Head(text)>>)
             \o EscapeQuotes(Tail(text))

QuoteCell(text) == <<"\"">> \o EscapeQuotes(text) \o <<"\"">>

ExportHeaders == <<LabelStudentId, LabelFullName, LabelEmail, LabelBirthDate, LabelHometown,
                   LabelMath, LabelLiterature, LabelEnglish, LabelAverage>>

\* The cells of a record's row.
ExportRow(student) ==
    <<CellText(Field(student, "student_id"), <<>>),
      CellText(Field(student, "full_name"), <<>>),
      CellText(Field(student, "email"), <<>>),
      CellText(Field(student, "birth_date"), <<>>),
      CellText(Field(student, "hometown"), <<>>),
      CellText(Field(student, "math_score"), <<"0">>),
      CellText(Field(student, "literature_score"), <<"0">>),
      CellText(Field(student, "english_score"), <<"0">>),
      CellText(Field(student, "average_score"), <<"0">>)>>

\* One line of the file: the quoted cells joined by commas, and the newline.
ExportLine(cells) ==
    join([c \in DOMAIN cells |-> QuoteCell(cells[c])], <<",">>) \o <<"\n">>

\* generateCSV: the byte-order mark, the header line and a line per record.
RECURSIVE ExportLines(_)
ExportLines(list) ==
    IF list = <<>> THEN <<>>
    ELSE ExportLine(ExportRow(Head(list))) \o ExportLines(Tail(list))

generateCSV(list) == <<ByteOrderMark>> \o ExportLine(ExportHeaders) \o ExportLines(list)

\* --------------------------------------------------------------------------
\* Local CSV import: processFileLocally, processStudentsThroughAPI
\* --------------------------------------------------------------------------
\* Data lines of a file, after its header line.
MaxDataLines == 3

HeaderLine == <<"M", "ã", " ", "s", "ố", " ", "s", "i", "n", "h", " ", "v", "i", "ê", "n", ",", "H", "ọ", " ", "t", "ê", "n", ",", "E", "m", "a", "i", "l">>

\* The lines a file is made of: a row whose student exists in the store, a
\* row of a new student, one with a quoted name, a blank line, a row with a
\* blank student id, and the template's instruction row.
ExistingRow == <<"S", "V", "0", "0", "0", "1", ",", "A", "n", " ", "L", "e", ",", "a", "@", "b", ".", "c">>
NewRow == <<"S", "V", "0", "0", "0", "9", ",", "V", "u", ",", "v", "@", "b", ".", "c">>
QuotedRow == <<"S", "V", "0", "0", "0", "8", ",", "\"", "L", "e", ",", " ", "V", "u", "\"", ",", "q", "@", "b", ".", "c">>
BlankLine == <<>>
BlankIdRow == <<",", "A", "n", " ", "L", "e", ",", "a", "@", "b", ".", "c">>
InstructionRow == <<"(", "m", "a", " ", "s", "o", ")", ",", "(", "h", "o", " ", "t", "e", "n", ")", ",", "(", "e", "m", "a", "i", "l", ")">>

DataLines == {ExistingRow, NewRow, QuotedRow, BlankLine, BlankIdRow, InstructionRow}

RECURSIVE Bodies(_)
Bodies(n) ==
    IF n = 0 THEN {<<>>}
    ELSE LET shorter == Bodies(n - 1)
         IN shorter \cup {Append(b, l) : b \in {x \in shorter : Len(x) = n - 1},
                                           l \in DataLines}

FileText(body) == join(<<HeaderLine>> \o body, <<"\n">>)

\* GET /students?search=term&page=1: the first page of the records whose
\* student code, name or email contains the term.
ServerSearch(store, term) ==
    LET Hit(r) == \/ includes(r.student_id.s, term)
                  \/ includes(r.full_name.s, term)
                  \/ includes(r.email.s, term)
    IN ServerList(SelectSeq(store, Hit), 1)

\* searchResult.items?.find(s => s.student_id === student.student_id): the id
\* of the first such item, 0 for undefined.
FindExisting(items, student_id) ==
    LET hits == {i \in DOMAIN items : items[i].student_id = Str(student_id)}
    IN IF hits = {} THEN 0
       ELSE items[CHOOSE i \in hits : \A j \in hits : i <= j].id

\* The body of the POST / PUT request for a parsed student.
ImportFormData(student) ==
    [student_id |-> Str(student.student_id),
     first_name |-> Str(student.first_name),
     last_name |-> Str(student.last_name),
     email |-> Str(student.email),
     hometown |-> student.hometown,
     average_score |-> Str(student.average_score)]

\* row: index + 2  ("+2 because of header and 0-index")
RowErrorNumber(index) == index + 2

\* A loop that leaves out every other row.
NextIndexSkipping(index) == index + 2

\* The for...of loop's next index.
NextIndex(index) == index + 1

NoResult == [imported |-> 0, updated |-> 0, skipped |-> 0, errors |-> <<>>]

IdleImport ==
    [pc |-> "idle", students |-> <<>>, errors |-> <<>>, index |-> 0,
     existingStudent |-> 0, imported |-> 0, updated |-> 0, skipped |-> 0,
     apiErrors |-> <<>>, result |-> NoResult]

\* No call of parseCSVRow under study.
IdleScan == [row |-> <<>>, result |-> <<>>, done |-> FALSE]

NoImport ==
    /\ file = [content |-> <<>>, updateExisting |-> TRUE]
    /\ imp = IdleImport
    /\ importLog = <<>>
    /\ scan = IdleScan

\* The loop after the row at r.index: the next row's lookup, or the return of
\* the aggregate result.
AfterRow(r) ==
    LET index == NextIndex(r.index)
    IN IF index < Len(r.students)
       THEN [r EXCEPT !.pc = "lookup", !.index = index, !.existingStudent = 0]
       ELSE [r EXCEPT !.pc = "done", !.index = index, !.existingStudent = 0,
                      !.result = [imported |-> r.imported, updated |-> r.updated,
                                  skipped |-> r.skipped, errors |-> r.apiErrors]]

importFrame == <<allStudents, derivedVars, controlVars, asyncVars, hist, file, scan,
                form, widgetVars>>

\* reader.onload of processFileLocally: parse the text; with at least one
\* valid student go through the API, otherwise resolve with the parse errors.
ReadFile ==
    /\ imp.pc = "read"
    /\ \E parsed \in {parseCSV(file.content)} :
          imp' = IF Len(parsed.students) > 0
                 THEN [IdleImport EXCEPT !.pc = "lookup", !.students = parsed.students,
                                         !.errors = parsed.errors]
                 ELSE [IdleImport EXCEPT !.pc = "done", !.errors = parsed.errors,
                                         !.result = [NoResult EXCEPT !.errors = parsed.errors]]
    /\ UNCHANGED <<importFrame, serverVars, importLog>>

\* The lookup of the current row answers or fails (a failed search leaves
\* existingStudent null), and the loop body decides: update, skip or create.
LookupResponds ==
    /\ imp.pc = "lookup"
    /\ \E ok \in BOOLEAN :
          LET student == imp.students[imp.index + 1]
              searchResult == ServerSearch(remote, student.student_id)
              existingStudent == IF ok THEN FindExisting(searchResult.items, student.student_id)
                                 ELSE 0
              request == IF existingStudent # 0
                         THEN (IF file.updateExisting THEN "update" ELSE "none")
                         ELSE "create"
              entry == [index |-> imp.index,
                        line |-> student.line,
                        exists |-> \E i \in DOMAIN remote :
                                      remote[i].student_id = Str(student.student_id),
                        lookup |-> ok,
                        request |-> request,
                        target |-> existingStudent]
          IN /\ importLog' = Append(importLog, entry)
             /\ imp' = IF request = "none"
                       THEN AfterRow([imp EXCEPT !.skipped = @ + 1])
                       ELSE [imp EXCEPT !.pc = request, !.existingStudent = existingStudent]
    /\ UNCHANGED <<importFrame, serverVars>>

\* A create whose failure is counted as imported as well.
CreateRespondsCountingFailures ==
    /\ imp.pc = "create"
    /\ LET student == imp.students[imp.index + 1]
       IN \/ /\ remote' = ServerCreate(remote, nextId, ImportFormData(student))
             /\ nextId' = nextId + 1
             /\ imp' = AfterRow([imp EXCEPT !.imported = @ + 1])
          \/ /\ imp' = AfterRow([imp EXCEPT !.imported = @ + 1, !.apiErrors =
                            Append(@, RowError(RowErrorNumber(imp.index), "Loi tao moi",
                                               student.line))])
             /\ UNCHANGED serverVars
    /\ UNCHANGED <<importFrame, importLog>>

\* api.createStudent answers or fails.
CreateResponds ==
    /\ imp.pc = "create"
    /\ LET student == imp.students[imp.index + 1]
       IN \/ /\ remote' = ServerCreate(remote, nextId, ImportFormData(student))
             /\ nextId' = nextId + 1
             /\ imp' = AfterRow([imp EXCEPT !.imported = @ + 1])
          \/ /\ imp' = AfterRow([imp EXCEPT !.apiErrors =
                            Append(@, RowError(RowErrorNumber(imp.index), "Loi tao moi",
                                               student.line))])
             /\ UNCHANGED serverVars
    /\ UNCHANGED <<importFrame, importLog>>

\* api.updateStudent answers or fails.
UpdateResponds ==
    /\ imp.pc = "update"
    /\ LET student == imp.students[imp.index + 1]
       IN \/ /\ remote' = ServerUpdate(remote, imp.existingStudent, ImportFormData(student))
             /\ imp' = AfterRow([imp EXCEPT !.updated = @ + 1])
          \/ /\ imp' = AfterRow([imp EXCEPT !.apiErrors =
                            Append(@, RowError(RowErrorNumber(imp.index), "Loi cap nhat",
                                               student.line))])
             /\ remote' = remote
    /\ UNCHANGED <<importFrame, nextId, importLog>>

\* --------------------------------------------------------------------------
\* Specifications
\* --------------------------------------------------------------------------
LoadStep ==
    \/ \E i \in LoadSlots : HealthResponse(i)
    \/ \E i \in LoadSlots : Page1Response(i)
    \/ \E i \in LoadSlots : NoParamResponse(i)
    \/ \E i \in LoadSlots : FallbackResponse(i)

\* The table view: every control of the table, over a working set that the
\* loads following an import or a bulk delete replace.  The user starts a bulk
\* operation when no load is in flight.
Init == InitView /\ NoImport

Next ==
    \/ SearchInput
    \/ HometownChange
    \/ GradeChange
    \/ ClearAllFilters
    \/ SortClick
    \/ PageClick
    \/ PageSizeChange
    \/ LoadSectionData
    \/ CrawlResponds
    \/ LoadStep
    \/ (InFlight = {} /\ ConfirmClearAll)
    \/ (InFlight = {} /\ StartImport)
    \/ OpFails
    \/ BulkOpSucceeds

Spec == Init /\ [][Next]_vars

\* The working set and the remote store: every remote mutation and the loads
\* it starts, with the table controls left at their defaults.
NextSync ==
    \/ LoadStep
    \/ SubmitCreate
    \/ SubmitUpdate
    \/ ConfirmDelete
    \/ ConfirmClearAll
    \/ StartImport
    \/ OpFails
    \/ SingleOpSucceeds
    \/ BulkOpSucceeds

SpecSync == Init /\ [][NextSync]_vars

\* The table over a loaded working set of up to MaxRows records (a store that
\* fits one page of the server's list): sorting, paging, page size and the
\* grade filter.
InitPaging ==
    /\ \E n \in 0..MaxRows :
          /\ remote = InitialStore(n)
          /\ nextId = n + 1
    /\ allStudents = remote
    /\ pageSize = DefaultPageSize
    /\ currentSort = [sortBy |-> "student_id", order |-> "asc"]
    /\ filters = NoFilters
    /\ \E v \in {ComputeView(allStudents, filters, currentSort, 1, pageSize)} :
          /\ filteredStudents = v.filteredStudents
          /\ totalItems = v.totalItems
          /\ totalPages = v.totalPages
          /\ currentPage = v.currentPage
          /\ students = v.students
          /\ panel = AfterPass(InitPanel, "students", allStudents, v.filteredStudents)
    /\ hometownOptions = HometownsOf(allStudents)
    /\ loads = [i \in LoadSlots |-> IdleLoad]
    /\ op = NoOp
    /\ form = NoForm
    /\ InitWidgets
    /\ faults = 0
    /\ hist = [InitHist EXCEPT !.committed = allStudents, !.lastLoad = "ok",
                               !.total = Len(remote)]
    /\ NoImport

NextPaging ==
    \/ SortClick
    \/ PageClick
    \/ PageSizeChange
    \/ GradeChange

SpecPaging == InitPaging /\ [][NextPaging]_vars

\* The filter and sort steps over every working set of up to MaxTableRows of
\* the sample records, in every order: records with equal names, equal
\* averages and equal hometowns, one without a hometown, one without an
\* average and one whose average is 0.
SampleData(k) == [FormData(k) EXCEPT !.average_score = IF k % 3 = 0 THEN Num(0) ELSE @]

SampleRecords == {ServerRecord(k, SampleData(k)) : k \in 1..TableSamples}

RECURSIVE Arrangements(_)
Arrangements(n) ==
    IF n = 0 THEN {<<>>}
    ELSE LET shorter == Arrangements(n - 1)
         IN shorter \cup {Append(l, r) : l \in {x \in shorter : Len(x) = n - 1},
                                           r \in SampleRecords}

WorkingSets ==
    {l \in Arrangements(MaxTableRows) : \A i, j \in DOMAIN l : i # j => l[i].id # l[j].id}

TableSortColumns == {"student_id", "last_name", "hometown", "average_score", "grade"}

HeaderClick == \E sortBy \in TableSortColumns : SortBy(sortBy)

InitTable ==
    /\ remote \in WorkingSets
    /\ nextId = TableSamples + 1
    /\ allStudents = remote
    /\ pageSize = DefaultPageSize
    /\ currentSort = [sortBy |-> "student_id", order |-> "asc"]
    /\ filters = NoFilters
    /\ \E v \in {ComputeView(allStudents, filters, currentSort, 1, pageSize)} :
          /\ filteredStudents = v.filteredStudents
          /\ totalItems = v.totalItems
          /\ totalPages = v.totalPages
          /\ currentPage = v.currentPage
          /\ students = v.students
          /\ panel = AfterPass(InitPanel, "students", allStudents, v.filteredStudents)
    /\ hometownOptions = HometownsOf(allStudents)
    /\ loads = [i \in LoadSlots |-> IdleLoad]
    /\ op = NoOp
    /\ form = NoForm
    /\ InitWidgets
    /\ faults = 0
    /\ hist = [InitHist EXCEPT !.committed = allStudents, !.lastLoad = "ok",
                               !.total = Len(remote)]
    /\ NoImport

NextTable ==
    \/ SearchInput
    \/ HometownChange
    \/ GradeChange
    \/ ClearAllFilters
    \/ HeaderClick

SpecTable == InitTable /\ [][NextTable]_vars

\* parseCSVRow on its own: every row of up to MaxRowLen characters over a
\* letter, the comma, the double quote and the space, and the row of the
\* quoted name.
RowChars == {"a", ",", "\"", " "}

RECURSIVE Texts(_)
Texts(n) ==
    IF n = 0 THEN {<<>>}
    ELSE LET shorter == Texts(n - 1)
         IN shorter \cup {Append(t, c) : t \in {x \in shorter : Len(x) = n - 1},
                                           c \in RowChars}

\* "a, ""a"" a"
QuotedNameRow == <<"\"", "a", ",", " ", "\"", "\"", "a", "\"", "\"", " ", "a", "\"">>

InitTokens ==
    /\ InitView
    /\ file = [content |-> <<>>, updateExisting |-> TRUE]
    /\ imp = IdleImport
    /\ importLog = <<>>
    /\ \E row \in Texts(MaxRowLen) \cup {QuotedNameRow} :
          scan = [IdleScan EXCEPT !.row = row]

\* this.parseCSVRow(row)
TokenizeRow ==
    /\ ~scan.done
    /\ scan' = [scan EXCEPT !.result = parseCSVRow(scan.row), !.done = TRUE]
    /\ UNCHANGED <<viewVars, file, imp, importLog>>

SpecTokens == InitTokens /\ [][TokenizeRow]_vars

\* One local CSV import (the fallback of handleImport when the server's import
\* endpoint fails), for every file of up to MaxDataLines data lines and both
\* settings of "update existing".
InitImport ==
    /\ InitView
    /\ \E body \in Bodies(MaxDataLines), updateExisting \in BOOLEAN :
          file = [content |-> FileText(body), updateExisting |-> updateExisting]
    /\ imp = [IdleImport EXCEPT !.pc = "read"]
    /\ importLog = <<>>
    /\ scan = IdleScan

NextImport ==
    \/ ReadFile
    \/ LookupResponds
    \/ CreateResponds
    \/ UpdateResponds

SpecImport == InitImport /\ [][NextImport]_vars

\* parseCSV over headers with the required columns in the usual order, in
\* another order and with the email column missing, and data lines with too
\* few and too many cells.
ReorderedHeader == <<"E", "m", "a", "i", "l", ",", "H", "ọ", " ", "t", "ê", "n", ",", "M", "ã", " ", "s", "ố", " ", "s", "i", "n", "h", " ", "v", "i", "ê", "n">>
HeaderNoEmail == <<"M", "ã", " ", "s", "ố", " ", "s", "i", "n", "h", " ", "v", "i", "ê", "n", ",", "H", "ọ", " ", "t", "ê", "n">>

HeaderLines == {HeaderLine, ReorderedHeader, HeaderNoEmail}

ReorderedRow == <<"v", "@", "b", ".", "c", ",", "V", "u", ",", "S", "V", "0", "0", "0", "9">>
ShortRow == <<"S", "V", "0", "0", "0", "7", ",", "V", "u">>
LongRow == <<"S", "V", "0", "0", "0", "6", ",", "V", "u", ",", "v", "@", "b", ".", "c", ",", "H", "N">>
ShortInstructionRow == <<"(", "m", "a", " ", "s", "o", ")", ",", "(", "h", "o", " ", "t", "e", "n", ")">>

\* A data row whose name cell carries a bracketed nickname.
NicknameRow == <<"S", "V", "0", "0", "0", "5", ",", "V", "u", " ", "(", "A", ")", ",", "v", "@", "b", ".", "c">>

ParsedLines == {ExistingRow, NewRow, ReorderedRow, ShortRow, LongRow, ShortInstructionRow,
                NicknameRow}

RECURSIVE ParsedBodies(_)
ParsedBodies(n) ==
    IF n = 0 THEN {<<>>}
    ELSE LET shorter == ParsedBodies(n - 1)
         IN shorter \cup {Append(b, l) : b \in {x \in shorter : Len(x) = n - 1},
                                           l \in ParsedLines}

InitParse ==
    /\ InitView
    /\ \E header \in HeaderLines, body \in ParsedBodies(MaxParsedLines),
          updateExisting \in BOOLEAN :
          file = [content |-> join(<<header>> \o body, <<"\n">>),
                  updateExisting |-> updateExisting]
    /\ imp = [IdleImport EXCEPT !.pc = "read"]
    /\ importLog = <<>>
    /\ scan = IdleScan

SpecParse == InitParse /\ [][NextImport]_vars

\* parseCSV over files with a birth-date column and a score column, whose
\* data lines carry dates and scores the validators accept or reject.
MaxFieldLines == 1

FieldHeader == join(<<LabelStudentId, LabelFullName, LabelEmail, LabelBirthDate, LabelMath>>,
                    <<",">>)

DateCells == {<<>>,
              <<"2", "0", "0", "0", "-", "0", "1", "-", "0", "1">>,
              <<"2", "0", "2", "0", "-", "0", "1", "-", "0", "1">>,
              <<"2", "0", "0", "0", "-", "0", "2", "-", "3", "0">>}

ScoreCells == {<<>>, <<"5">>, <<"1", "1">>, <<"8", "x">>, <<"7", ".", "5">>, <<"x">>}

FieldLines ==
    {join(<<id, <<"A", "n", " ", "L", "e">>, <<"a", "@", "b", ".", "c">>, date, score>>, <<",">>) :
        id \in {<<"S", "V", "0", "0", "0", "1">>, <<"S", "V", "0", "0", "0", "9">>},
        date \in DateCells, score \in ScoreCells}

RECURSIVE FieldBodies(_)
FieldBodies(n) ==
    IF n = 0 THEN {<<>>}
    ELSE LET shorter == FieldBodies(n - 1)
         IN shorter \cup {Append(b, l) : b \in {x \in shorter : Len(x) = n - 1},
                                           l \in FieldLines}

InitFields ==
    /\ InitView
    /\ \E body \in FieldBodies(MaxFieldLines), updateExisting \in BOOLEAN :
          file = [content |-> join(<<FieldHeader>> \o body, <<"\n">>),
                  updateExisting |-> updateExisting]
    /\ imp = [IdleImport EXCEPT !.pc = "read"]
    /\ importLog = <<>>
    /\ scan = IdleScan

SpecFields == InitFields /\ [][NextImport]_vars

\* Export and re-import: the working set is written to a CSV file by
\* exportLocally, and that file is then imported.  The working sets hold a
\* record with every field and one absent score, a record without an email,
\* a record whose last name has two words, and a record with a quote in its
\* hometown.
MaxExportRows == 2
ExportSamples == 4

ExportData(k) ==
    [FormData(1) EXCEPT
        !.student_id = Str(<<"S", "V", "0", "0", "0", Digit(k)>>),
        !.email = IF k = 2 THEN Null ELSE @,
        !.last_name = IF k = 3 THEN Str(<<"V", "a", "n", " ", "L", "e">>) ELSE @,
        !.hometown = IF k = 4 THEN Str(<<"H", "\"", "N">>) ELSE @]

ExportRecord(k) ==
    ServerRecord(k, ExportData(k)) @@
        [birth_date |-> Str(<<"2", "0", "0", "0", "-", "0", "1", "-", "0", "1">>),
         math_score |-> Num(850),
         literature_score |-> IF k = 1 THEN Null ELSE Num(700),
         english_score |-> Num(1000)]

RECURSIVE ExportArrangements(_)
ExportArrangements(n) ==
    IF n = 0 THEN {<<>>}
    ELSE LET shorter == ExportArrangements(n - 1)
         IN shorter \cup {Append(l, ExportRecord(k)) :
                              l \in {x \in shorter : Len(x) = n - 1}, k \in 1..ExportSamples}

ExportSets ==
    {l \in ExportArrangements(MaxExportRows) :
        \A i, j \in DOMAIN l : i # j => l[i].id # l[j].id}

InitRoundTrip ==
    /\ remote \in ExportSets
    /\ nextId = ExportSamples + 1
    /\ allStudents = remote
    /\ pageSize = DefaultPageSize
    /\ currentSort = [sortBy |-> "student_id", order |-> "asc"]
    /\ filters = NoFilters
    /\ \E v \in {ComputeView(allStudents, filters, currentSort, 1, pageSize)} :
          /\ filteredStudents = v.filteredStudents
          /\ totalItems = v.totalItems
          /\ totalPages = v.totalPages
          /\ currentPage = v.currentPage
          /\ students = v.students
          /\ panel = AfterPass(InitPanel, "students", allStudents, v.filteredStudents)
    /\ hometownOptions = HometownsOf(allStudents)
    /\ loads = [i \in LoadSlots |-> IdleLoad]
    /\ op = NoOp
    /\ form = NoForm
    /\ InitWidgets
    /\ faults = 0
    /\ hist = [InitHist EXCEPT !.committed = allStudents, !.lastLoad = "ok",
                               !.total = Len(remote)]
    /\ \E updateExisting \in BOOLEAN :
          file = [content |-> <<>>, updateExisting |-> updateExisting]
    /\ imp = IdleImport
    /\ importLog = <<>>
    /\ scan = IdleScan

\* exportLocally('csv') writes the working set to a file ("no data to export"
\* for an empty working set), and the user picks that file for an import.
ExportCsv ==
    /\ imp.pc = "idle"
    /\ Len(allStudents) # 0
    /\ file' = [file EXCEPT !.content = generateCSV(allStudents)]
    /\ imp' = [IdleImport EXCEPT !.pc = "read"]
    /\ UNCHANGED <<viewVars, importLog, scan>>

NextRoundTrip ==
    \/ ExportCsv
    \/ NextImport

SpecRoundTrip == InitRoundTrip /\ [][NextRoundTrip]_vars

\* The grade filter over working sets whose averages lie on and next to the
\* grade thresholds, below 0, and are absent.
MaxGradeRows == 2

GradeAverages == <<Null, Num(0 - 100), Num(0), Num(399), Num(400), Num(549), Num(550),
                   Num(699), Num(700), Num(849), Num(850), Num(1000)>>

GradeRecord(id, k) ==
    ServerRecord(id, [FormData(1) EXCEPT
                         !.student_id = Str(<<"S", "V", "0", "0", Digit(k \div 10), Digit(k)>>),
                         !.average_score = GradeAverages[k]])

GradeSets ==
    UNION {{[i \in 1..n |-> GradeRecord(i, kinds[i])] :
               kinds \in [1..n -> DOMAIN GradeAverages]} : n \in 1..MaxGradeRows}

\* The page after a load that put the list all in the working set, while the
\* table was on page `page` with `size` records per page.
LoadedAt(all, page, size) ==
    /\ remote = all
    /\ nextId = Len(all) + 1
    /\ allStudents = all
    /\ pageSize = size
    /\ currentSort = [sortBy |-> "student_id", order |-> "asc"]
    /\ filters = NoFilters
    /\ \E v \in {ComputeView(all, NoFilters, currentSort, page, size)} :
          /\ filteredStudents = v.filteredStudents
          /\ totalItems = v.totalItems
          /\ totalPages = v.totalPages
          /\ currentPage = v.currentPage
          /\ students = v.students
          /\ panel = AfterPass(InitPanel, "students", all, v.filteredStudents)
    /\ hometownOptions = HometownsOf(all)
    /\ loads = [i \in LoadSlots |-> IdleLoad]
    /\ op = NoOp
    /\ form = NoForm
    /\ InitWidgets
    /\ faults = 0
    /\ hist = [InitHist EXCEPT !.committed = all, !.lastLoad = "ok", !.total = Len(all)]
    /\ NoImport

\* The same with the controls at their defaults.
LoadedWith(all) == LoadedAt(all, 1, DefaultPageSize)

InitGrades == \E all \in GradeSets : LoadedWith(all)

\* The grade dropdown with its options A to F and "all".
GradeSelect ==
    \E v \in GradeLetters \cup {<<>>} :
        /\ v # filters.grade
        /\ SetFilter("grade", v)
        /\ UNCHANGED searchBox

SpecGrades == InitGrades /\ [][GradeSelect]_vars

\* The statistics strip and the analytics section over working sets of up to
\* MaxAnalyticsRows of the sample records, in every order: two records with
\* the same average, hometowns that differ in a trailing space only, and a
\* record with a hometown of one space, no average and no score.
MaxAnalyticsRows == 3

AnalyticsKinds ==
    <<[hometown |-> Str(<<"H", "N">>), average |-> Num(900), literature |-> Num(900)],
      [hometown |-> Str(<<"H", "N", " ">>), average |-> Num(300), literature |-> Null],
      [hometown |-> Str(<<" ">>), average |-> Null, literature |-> Null]>>

AnalyticsRecord(id, k) ==
    ServerRecord(id, [FormData(1) EXCEPT
                         !.student_id = Str(<<"S", "V", "0", "0", Digit(k), Digit(id)>>),
                         !.hometown = AnalyticsKinds[k].hometown,
                         !.average_score = AnalyticsKinds[k].average]) @@
        [math_score |-> AnalyticsKinds[k].average,
         literature_score |-> AnalyticsKinds[k].literature,
         english_score |-> AnalyticsKinds[k].average]

AnalyticsSets ==
    UNION {{[i \in 1..n |-> AnalyticsRecord(i, kinds[i])] :
               kinds \in [1..n -> DOMAIN AnalyticsKinds]} : n \in 1..MaxAnalyticsRows}

InitAnalytics == \E all \in AnalyticsSets : LoadedWith(all)

NextAnalytics ==
    \/ SearchInput
    \/ GradeChange
    \/ SortClick
    \/ PageClick
    \/ PageSizeChange
    \/ LoadSectionData
    \/ OpenAnalytics
    \/ RefreshAnalytics

SpecAnalytics == InitAnalytics /\ [][NextAnalytics]_vars

\* The insights over working sets of up to MaxInsightRows records: some with
\* the average 9 (math 9.5, literature 8.5), some with a literature score of
\* 6 and a math score of 6, 7 or 7.01 (the same in all of them), and some
\* without any score, so that the shares of exactly 10%, 20% and 80% and the
\* gap of exactly 1 occur.
MaxInsightRows == 10

GapScores == <<600, 700, 701>>

ExcellentRecord(id) ==
    ServerRecord(id, [FormData(1) EXCEPT !.average_score = Num(900)]) @@
        [math_score |-> Num(950), literature_score |-> Num(850), english_score |-> Null]

MiddlingRecord(id, math) ==
    ServerRecord(id, [FormData(1) EXCEPT !.average_score = Num((math + 600) \div 2)]) @@
        [math_score |-> Num(math), literature_score |-> Num(600), english_score |-> Null]

UnscoredRecord(id) ==
    ServerRecord(id, [FormData(1) EXCEPT !.average_score = Null]) @@
        [math_score |-> Null, literature_score |-> Null, english_score |-> Null]

InsightSet(excellent, middling, unscored, math) ==
    [i \in 1..(excellent + middling + unscored) |->
        IF i <= excellent THEN ExcellentRecord(i)
        ELSE IF i <= excellent + middling THEN MiddlingRecord(i, math)
        ELSE UnscoredRecord(i)]

InsightSets ==
    {InsightSet(c[1], c[2], c[3], GapScores[g]) :
        c \in {x \in (0..MaxInsightRows) \X (0..MaxInsightRows) \X (0..MaxInsightRows) :
                   x[1] + x[2] + x[3] \in 1..MaxInsightRows},
        g \in DOMAIN GapScores}

InitInsights == \E all \in InsightSets : LoadedWith(all)

NextInsights ==
    \/ OpenAnalytics
    \/ RefreshAnalytics
    \/ LoadSectionData

SpecInsights == InitInsights /\ [][NextInsights]_vars

\* The student form over a loaded working set: the modal opens for a new
\* record or for a record of the table, the user types texts the validators
\* accept and texts they refuse, submits or closes the modal; the create or
\* update then succeeds.
FormRecords == 1

InitForm == LoadedWith(InitialStore(FormRecords))

NextForm ==
    \/ OpenAddModal
    \/ OpenEditModal
    \/ FormInput
    \/ FormSubmit
    \/ HideModal
    \/ SingleOpSucceeds

SpecForm == InitForm /\ [][NextForm]_vars

\* Every request of the import settles: api.fetch aborts a request after
\* API_CONFIG.TIMEOUT, and FileReader fires onload or onerror.
\* The table over every working set of up to MaxTableRows sample records,
\* loaded while the table was on one of the first MaxRerunPage pages, with the
\* events that change a filter, the sort, the page or the page size, and
\* refreshDisplay between them.
MaxRerunPage == 3

InitRerun ==
    \E all \in WorkingSets, page \in 1..MaxRerunPage, size \in PageSizeOptions :
        LoadedAt(all, page, size)

NextRerun ==
    \/ HometownChange
    \/ GradeChange
    \/ SortClick
    \/ PageClick
    \/ PageSizeChange
    \/ RefreshDisplay

SpecRerun == InitRerun /\ [][NextRerun]_vars

\* The search box over a loaded working set of SearchRecords records: the
\* keystrokes, the timer, and the sort, page and page-size controls.
SearchRecords == 3

InitSearch == LoadedWith(InitialStore(SearchRecords))

NextSearch ==
    \/ Keystroke
    \/ SearchTimer
    \/ SortClick
    \/ PageClick
    \/ PageSizeChange

SpecSearch == InitSearch /\ [][NextSearch]_vars

\* The student modal with the requests of editStudent in flight: the add
\* button and its shortcut, the edit buttons, the form and its submit.
ModalRecords == 1

InitModal == LoadedWith(InitialStore(ModalRecords))

NextModal ==
    \/ OpenAddModal
    \/ EditStudent
    \/ GetStudentResponds
    \/ FormInput
    \/ FormSubmit
    \/ HideModal
    \/ SingleOpSucceeds

SpecModal == InitModal /\ [][NextModal]_vars

\* The row checkboxes and the header checkbox over a loaded working set of
\* SelectRecords records, with the page controls, the grade filter, and the
\* deletion of a record and the reloads that follow it.
SelectRecords == 3

InitSelect == LoadedWith(InitialStore(SelectRecords))

NextSelect ==
    \/ ToggleStudentSelection
    \/ ToggleSelectAll
    \/ PageClick
    \/ PageSizeChange
    \/ GradeChange
    \/ ConfirmDelete
    \/ SingleOpSucceeds
    \/ LoadStep

SpecSelect == InitSelect /\ [][NextSelect]_vars

\* Every control of the table over the working sets of SpecRerun: the search
\* box, the two dropdowns, "clear all", the sortable headers, the page
\* buttons and the page-size selector.
NextControls ==
    \/ SearchInput
    \/ HometownChange
    \/ GradeChange
    \/ ClearAllFilters
    \/ SortClick
    \/ PageClick
    \/ PageSizeChange

SpecControls == InitRerun /\ [][NextControls]_vars

\* The notifications: up to MaxShown calls of show() by the handlers of a
\* loaded page, and the two timers of processQueue, which the event loop
\* fires.
NextNotifications ==
    \/ Notify
    \/ HideTimer
    \/ NextTimer

SpecNotifications ==
    /\ LoadedWith(InitialStore(1))
    /\ [][NextNotifications]_vars
    /\ WF_vars(HideTimer)
    /\ WF_vars(NextTimer)

\* The loading overlay: the three operations that show and hide it
\* (editStudent, handleCrawl, loadAnalytics) on a loaded page with the two
\* sections, with the notifications they raise.
NextLoading ==
    \/ EditStudent
    \/ GetStudentResponds
    \/ GetStudentFails
    \/ HideModal
    \/ HandleCrawl
    \/ CrawlSettles
    \/ LoadSectionData
    \/ OpenAnalytics
    \/ RefreshAnalytics
    \/ HideTimer
    \/ NextTimer

SpecLoading == LoadedWith(InitialStore(1)) /\ [][NextLoading]_vars

SpecImportLive == SpecImport /\ WF_vars(NextImport)

\* --------------------------------------------------------------------------
\* Claims
\* --------------------------------------------------------------------------
\* C1: after every recompute of the table view, currentPage lies in
\* [1, max(1, totalPages)]: it is never left pointing past the end when the
\* filtered set shrinks, also to zero records.
PageInRange == currentPage \in 1..Max(1, totalPages)

\* C2: after every recompute totalPages = max(1, ceil(totalItems / pageSize));
\* with 0 filtered records the page slice is empty, totalPages = 1 and
\* currentPage = 1, whatever page was requested before.
PageCountAtLeastOne ==
    /\ totalPages = Max(1, CeilDiv(totalItems, pageSize))
    /\ totalItems = 0 => (students = <<>> /\ totalPages = 1 /\ currentPage = 1)

\* C3: after every recompute totalItems is the length of the filtered and
\* sorted list, and the displayed records are exactly its elements at the
\* (0-based) positions (currentPage-1)*pageSize .. currentPage*pageSize-1, in
\* order; so with pageSize 10 and n > 0 records the last page ceil(n/10) holds
\* n mod 10 records, or 10 when n mod 10 = 0.
PageSliceExact ==
    LET first == (currentPage - 1) * pageSize
        shown == {p \in first..(first + pageSize - 1) : p < totalItems}
    IN /\ totalItems = Len(filteredStudents)
       /\ filteredStudents = sortStudents(FilterStudents(allStudents, filters), currentSort)
       /\ Len(students) = Cardinality(shown)
       /\ \A k \in 1..Len(students) : students[k] = filteredStudents[first + k]
       /\ (pageSize = 10 /\ totalItems > 0 /\ currentPage = CeilDiv(totalItems, 10))
             => Len(students) = (IF totalItems % 10 = 0 THEN 10 ELSE totalItems % 10)

\* The last of three pages of ten holds the one record left over.
PageSliceExactWitness ==
    /\ pageSize = 10
    /\ totalItems = 21
    /\ currentPage = 3
    /\ Len(students) = 1

\* C4: when loadAllStudents completes without a remote error the working set
\* holds every record of the remote store, however many pages the server
\* splits its list into.
LoadIsComplete == hist.lastLoad = "ok" => Len(hist.committed) = hist.total

\* What the loadAllStudents() calls in flight can leave as the working set.
ReloadOutcomes ==
    {remote, ServerList(remote, 1).items}
        \cup {loads[i].resp.items : i \in {j \in InFlight : loads[j].resp.ok}}

\* C5: a pipeline pass run by a user event while a reload awaits its response
\* reads the complete working set from before the reload or the complete one
\* from after it, never an emptied or partly assembled one.
PassReadsSnapshot ==
    (hist.pass.user /\ hist.pass.inflight)
        => hist.pass.read \in {hist.committed} \cup ReloadOutcomes

\* C6: for each row handed to the reconciler: if a remote record with the same
\* student code exists, then with "update existing" enabled one update of that
\* record and no create is issued, and with it disabled no mutation is issued
\* and the row is counted as skipped; if none exists one create is issued.
ReconcilerDecides ==
    /\ \A k \in DOMAIN importLog :
          LET e == importLog[k]
          IN /\ (e.exists /\ file.updateExisting) =>
                    /\ e.request = "update"
                    /\ \E i \in DOMAIN remote : remote[i].id = e.target
             /\ (e.exists /\ ~file.updateExisting) => e.request = "none"
             /\ ~e.exists => e.request = "create"
    /\ imp.skipped = Cardinality({k \in DOMAIN importLog : importLog[k].request = "none"})

\* Every row's lookup has been logged once, in file order, and at the end
\* every row has exactly one outcome.
RowsInOrder ==
    /\ \A k \in DOMAIN importLog : importLog[k].index = k - 1
    /\ Len(importLog) = (IF imp.pc \in {"create", "update"} THEN imp.index + 1
                         ELSE imp.index)
    /\ imp.pc = "done" =>
          /\ Len(importLog) = Len(imp.students)
          /\ imp.imported + imp.updated + imp.skipped + Len(imp.apiErrors)
                = Len(imp.students)

\* C7: a failed lookup, create or update for one row never stops the batch:
\* every candidate row is processed exactly once, in file order, whatever the
\* outcome of earlier rows, and the import always ends by returning a result.
BatchRunsToCompletion == [](RowsInOrder) /\ <>(imp.pc = "done")

\* Three rows went through although the first row's lookup failed and a
\* create or update failed.
BatchRunsToCompletionWitness ==
    /\ imp.pc = "done"
    /\ Len(imp.students) = 3
    /\ Len(importLog) = 3
    /\ ~importLog[1].lookup
    /\ imp.apiErrors # <<>>

\* C8: every row-level error of an import result, raised by the parser or by
\* a failed create or update, carries the line number its row has in the
\* file, also after blank, skipped or rejected lines.
ErrorsCarryFileLine ==
    \A e \in Range(imp.errors) \cup Range(imp.apiErrors) :
        e.line # 0 => e.row = e.line

\* C9: the result of a local import holds every row-level error the parser
\* raised together with every remote failure, and a row the parser rejected
\* is never sent to the remote store.
ResultKeepsEveryError ==
    /\ imp.pc = "done" =>
          Range(imp.errors) \cup Range(imp.apiErrors) \subseteq Range(imp.result.errors)
    /\ \A k \in DOMAIN importLog, e \in Range(imp.errors) : importLog[k].line # e.line

\* C10: after every successful create, update, delete, import or bulk delete
\* a full reload of the working set starts and nothing patches the working
\* set in place; once the reloads are over and no mutation is pending, the
\* working set reflects the mutation.
ReloadReflectsMutation ==
    (InFlight = {} /\ op = NoOp /\ hist.lastLoad = "ok") => allStudents = remote

\* C11: a data reload (every step of loadAllStudents, and the refresh that
\* follows a crawl or a section switch) leaves the filters and the sort spec
\* unchanged and changes the page number only by clamping it into range; the
\* page returns to 1 only through the filter, sort or page controls.
ReloadKeepsControls ==
    [][(LoadStep \/ LoadSectionData \/ CrawlResponds) =>
          /\ filters' = filters
          /\ currentSort' = currentSort
          /\ currentPage' \in {currentPage, Max(1, Min(currentPage, totalPages'))}]_vars

\* C12: at most one loadAllStudents() call awaits a remote response at any
\* time: no mutation starts a second reload before an earlier one completed.
SingleReloadInFlight == Cardinality(InFlight) <= 1

\* C13: the filtered set holds exactly the records of the working set that
\* satisfy every active predicate (search AND hometown AND grade) and no
\* others, the working set itself is not modified, and with no active
\* predicate the filtered set contains every record of the working set.
FilterIsConjunction ==
    LET Satisfies(r) ==
            /\ (filters.search # <<>> => MatchesSearch(r, filters.search))
            /\ (filters.hometown # <<>> => MatchesHometown(r, filters.hometown))
            /\ (filters.grade # <<>> => MatchesGrade(r, filters.grade))
    IN /\ \A r \in Range(allStudents) : r \in Range(filteredStudents) <=> Satisfies(r)
       /\ Range(filteredStudents) \subseteq Range(allStudents)
       /\ Len(filteredStudents) = Cardinality({r \in Range(allStudents) : Satisfies(r)})
       /\ allStudents = hist.committed
       /\ filters = NoFilters => Range(filteredStudents) = Range(allStudents)

\* Two predicates are active, each of them alone keeps a record the other
\* rejects, and one record passes both.
FilterIsConjunctionWitness ==
    /\ filters.search # <<>>
    /\ filters.grade # <<>>
    /\ Len(filteredStudents) = 1
    /\ \E r \in Range(allStudents) :
          MatchesSearch(r, filters.search) /\ ~MatchesGrade(r, filters.grade)
    /\ \E r \in Range(allStudents) :
          ~MatchesSearch(r, filters.search) /\ MatchesGrade(r, filters.grade)

\* C14: sorting is stable in both directions: two records whose sort keys
\* compare equal keep the relative order they had in the input, ascending and
\* descending.
SortIsStable ==
    LET Position(r) == CHOOSE k \in DOMAIN allStudents : allStudents[k] = r
    IN \A i, j \in DOMAIN filteredStudents :
          (i < j /\ compare(filteredStudents[i], filteredStudents[j], currentSort) = 0)
             => Position(filteredStudents[i]) < Position(filteredStudents[j])

\* A descending sort moved records and left two records with equal keys.
SortIsStableWitness ==
    /\ currentSort.order = "desc"
    /\ filteredStudents # FilterStudents(allStudents, filters)
    /\ \E i, j \in DOMAIN filteredStudents :
          i < j /\ compare(filteredStudents[i], filteredStudents[j], currentSort) = 0

\* C15: sorting an already sorted list again with the same sort spec (any
\* key, grade included, either direction) returns the same sequence.
SortIsIdempotent == sortStudents(filteredStudents, currentSort) = filteredStudents

\* The list on display was reordered by a sort by grade and holds a tie.
SortIsIdempotentWitness ==
    /\ currentSort.sortBy = "grade"
    /\ Len(filteredStudents) = 3
    /\ filteredStudents # FilterStudents(allStudents, filters)
    /\ \E i, j \in DOMAIN filteredStudents :
          i < j /\ compare(filteredStudents[i], filteredStudents[j], currentSort) = 0

\* C16: after an ascending sort by a record field every record without a
\* value for the field (null, undefined) comes before every record that has
\* one, the score 0 included, and no record is dropped.
NullsSortFirst ==
    (currentSort.order = "asc" /\ currentSort.sortBy # "grade") =>
        /\ \A i, j \in DOMAIN filteredStudents :
              (i < j) => ~(/\ Field(filteredStudents[i], currentSort.sortBy).t # "null"
                           /\ Field(filteredStudents[j], currentSort.sortBy).t = "null")
        /\ Len(filteredStudents) = Len(FilterStudents(allStudents, filters))

\* The characters c of the fields parseCSVRow returned.
ScanCount(c) ==
    Cardinality({pos \in {<<k, i>> : k \in DOMAIN scan.result, i \in 1..MaxRowLen + Len(QuotedNameRow)} :
                    pos[2] <= Len(scan.result[pos[1]]) /\ scan.result[pos[1]][pos[2]] = c})

\* The double quotes of the row before position p: p lies inside quotes when
\* their number is odd.
QuotesBefore(p) == Cardinality({q \in 1..(p - 1) : scan.row[q] = "\""})

\* C17: parseCSVRow is a two-state tokenizer: a row yields 1 + (number of
\* commas outside quotes) fields; a comma inside quotes is literal text of its
\* field; inside quotes a doubled quote yields one literal quote and every
\* other quote only switches the state; so the quoted name with a comma and
\* an escaped quote comes back as one field.
TokenizerSplitsOutsideQuotes ==
    scan.done =>
        LET row == scan.row
            commas == {p \in DOMAIN row : row[p] = ","}
            outside == {p \in commas : QuotesBefore(p) % 2 = 0}
            escaped == {p \in DOMAIN row : /\ p > 1
                                           /\ row[p] = "\""
                                           /\ row[p - 1] = "\""
                                           /\ QuotesBefore(p) % 2 = 0}
        IN /\ Len(scan.result) = 1 + Cardinality(outside)
           /\ ScanCount(",") = Cardinality(commas \ outside)
           /\ ScanCount("\"") = Cardinality(escaped)
           /\ row = QuotedNameRow =>
                 scan.result = << <<"a", ",", " ", "\"", "a", "\"", " ", "a">> >>

\* The quoted name with its comma and its escaped quote was tokenized.
TokenizerSplitsOutsideQuotesWitness ==
    /\ scan.done
    /\ scan.row = QuotedNameRow
    /\ Len(scan.result) = 1
    /\ ScanCount(",") = 1
    /\ ScanCount("\"") = 2

\* C18: parseCSVRow trims white space only from unquoted field text: a field
\* of a row without quotes has no leading or trailing white space, and every
\* white space character inside the quotes of a (closed) quoted field is
\* returned.
QuotedWhitespaceKept ==
    scan.done =>
        LET row == scan.row
            quotedSpaces == {p \in DOMAIN row : IsSpace(row[p]) /\ QuotesBefore(p) % 2 = 1}
        IN /\ (\A p \in DOMAIN row : row[p] # "\"") =>
                  \A k \in DOMAIN scan.result :
                      scan.result[k] = trim(split(row, ",")[k])
           /\ QuotesBefore(Len(row) + 1) % 2 = 0 =>
                  ScanCount(" ") >= Cardinality(quotedSpaces)

\* The lines of the selected file, and the cells of its header line.
FileLines == split(file.content, "\n")

FileHeaders == parseCSVRow(trim(FileLines[1]))

\* The cells of line n of the file, and whether the parser passes a line of
\* these cells over as an instruction row or an empty row.
FileCells(n) == parseCSVRow(trim(FileLines[n]))

CellsSkipped(cells) ==
    \/ \E c \in DOMAIN cells : includes(cells[c], <<"(">>) /\ includes(cells[c], <<")">>)
    \/ \A c \in DOMAIN cells : trim(cells[c]) = <<>>

\* The errors and the candidate rows parseCSV returned for line n.
ErrorsOfLine(n) == {k \in DOMAIN imp.errors : imp.errors[k].line = n}

StudentsOfLine(n) == {k \in DOMAIN imp.students : imp.students[k].line = n}

\* C19: when the header line lacks one of the three required columns parsing
\* returns zero rows and exactly one error, about the document; no data line
\* is examined and no remote request is made for the import.  The order of
\* the header columns does not matter: a header that has the three columns
\* in any order raises no document error, and every candidate row takes its
\* student code from the column of that label.
MissingHeaderFailsFast ==
    imp.pc # "read" =>
        Let(FileHeaders, LAMBDA headers :
            IF \E k \in DOMAIN requiredHeaders : requiredHeaders[k] \notin Range(headers)
            THEN /\ imp.pc = "done"
                 /\ imp.students = <<>>
                 /\ Len(imp.errors) = 1
                 /\ imp.errors[1].line = 0
                 /\ imp.result.errors = imp.errors
                 /\ imp.result.imported + imp.result.updated + imp.result.skipped = 0
                 /\ importLog = <<>>
                 /\ remote = InitialStore(InitRecords)
            ELSE Len(FileLines) >= 2 =>
                 /\ \A k \in DOMAIN imp.errors : imp.errors[k].line # 0
                 /\ \A k \in DOMAIN imp.students :
                        imp.students[k].student_id
                            = trim(FileCells(imp.students[k].line)
                                       [CHOOSE c \in DOMAIN headers :
                                            headers[c] = LabelStudentId]))

\* A file without the email column and with a data line of too few cells
\* ended with the one document error.
MissingHeaderFailsFastWitness ==
    /\ imp.pc = "done"
    /\ LabelEmail \notin Range(FileHeaders)
    /\ Len(FileLines) = 3
    /\ FileLines[2] = ShortRow
    /\ Len(imp.errors) = 1
    /\ imp.students = <<>>

IsPlaceholder(cell) ==
    Let(trim(cell), LAMBDA text :
        Len(text) >= 2 /\ text[1] = "(" /\ text[Len(text)] = ")")

\* C21: a data line that parsing passes over without a candidate row and
\* without an error has a cell that is a placeholder wrapped in parentheses,
\* or has only empty cells; every other data line yields a candidate row or
\* a row-level error.
SilentSkipOnlyForPlaceholders ==
    LET complete == \A k \in DOMAIN requiredHeaders :
                        requiredHeaders[k] \in Range(FileHeaders)
    IN (imp.pc # "read" /\ complete) =>
          \A n \in 2..Len(FileLines) :
              Let(FileCells(n), LAMBDA cells :
                  (ErrorsOfLine(n) = {} /\ StudentsOfLine(n) = {}) =>
                      \/ \E c \in DOMAIN cells : IsPlaceholder(cells[c])
                      \/ \A c \in DOMAIN cells : trim(cells[c]) = <<>>)

\* The cell of line n of the file under the header label.
FileCell(n, label) ==
    trim(FileCells(n)[CHOOSE c \in DOMAIN FileHeaders : FileHeaders[c] = label])

\* C22: for a data line that parsing does not pass over, whose required cells
\* are filled in, the parser raises a row-level error exactly when
\* validateBirthDate rejects its birth-date cell or validateScore rejects its
\* score cell; the row becomes a candidate row otherwise.
ParserAgreesWithValidators ==
    imp.pc # "read" =>
        \A n \in 2..Len(FileLines) :
            Let(validateBirthDate(FileCell(n, LabelBirthDate))
                    /\ validateScore(FileCell(n, LabelMath)),
                LAMBDA accepted :
                    /\ (ErrorsOfLine(n) # {}) <=> ~accepted
                    /\ (StudentsOfLine(n) # {}) <=> accepted)

\* C23: every row for which the import has issued a remote create or update
\* passes the required-field rules of the validators: its student code is 6
\* to 12 alphanumeric characters, and its first name and its last name are
\* not empty and at most 50 characters long.
ImportedRowsAreValid ==
    \A k \in DOMAIN importLog :
        importLog[k].request \in {"create", "update"} =>
            Let(imp.students[importLog[k].index + 1], LAMBDA student :
                /\ validateStudentId(student.student_id)
                /\ validateName(student.first_name)
                /\ validateName(student.last_name))

\* The text of a field value ("" for an absent one) and its number (0 for an
\* absent one).
TextOf(v) == IF v.t = "str" THEN v.s ELSE <<>>

NumberOf(v) == IF v.t = "num" THEN v.n ELSE 0

\* The candidate row carries the field values of the record.
SameFields(student, record) ==
    /\ student.student_id = TextOf(Field(record, "student_id"))
    /\ student.first_name = TextOf(Field(record, "first_name"))
    /\ student.last_name = TextOf(Field(record, "last_name"))
    /\ student.email = TextOf(Field(record, "email"))
    /\ TextOf(student.birth_date) = TextOf(Field(record, "birth_date"))
    /\ TextOf(student.hometown) = TextOf(Field(record, "hometown"))
    /\ student.math_score = NumberOf(Field(record, "math_score"))
    /\ student.literature_score = NumberOf(Field(record, "literature_score"))
    /\ student.english_score = NumberOf(Field(record, "english_score"))

\* C24: parsing the text that generateCSV produced for the working set
\* returns no error and one candidate row per record, in order, each with
\* the student code, first name, last name, email, birth date, hometown and
\* three subject scores of its record (an absent score reads back as 0).
CsvRoundTrip ==
    imp.pc \notin {"idle", "read"} =>
        /\ imp.errors = <<>>
        /\ Len(imp.students) = Len(allStudents)
        /\ \A k \in DOMAIN imp.students : SameFields(imp.students[k], allStudents[k])

\* The grade letter the thresholds 8.5, 7.0, 5.5 and 4.0 give an average
\* (averages are in hundredths), none for an absent average.
LetterOf(average) ==
    IF average.t = "null" THEN <<>>
    ELSE IF average.n >= 850 THEN <<"A">>
    ELSE IF average.n >= 700 THEN <<"B">>
    ELSE IF average.n >= 550 THEN <<"C">>
    ELSE IF average.n >= 400 THEN <<"D">>
    ELSE <<"F">>

\* C25: calculateGrade gives a defined average a the letter A iff a >= 8.5, B
\* iff 7.0 <= a < 8.5, C iff 5.5 <= a < 7.0, D iff 4.0 <= a < 5.5 and F iff
\* a < 4.0, with no lower bound (8.5 is A, 8.49 is B, 7.0 is B, 5.5 is C, 4.0
\* is D, 3.99 is F); an absent average gets no letter, and under a concrete
\* grade filter the table lists exactly the records whose average has that
\* letter, so never a record without an average.
GradeBoundariesExact ==
    /\ \A i \in DOMAIN allStudents :
          calculateGrade(allStudents[i].average_score)
              = LetterOf(allStudents[i].average_score)
    /\ filters.grade # <<>> =>
          \A i \in DOMAIN allStudents :
              (allStudents[i] \in Range(filteredStudents))
                  <=> (LetterOf(allStudents[i].average_score) = filters.grade)

\* Under the filter B the table lists the record with the average 8.49 and
\* not the one with 8.5, and under the filter F it lists the record with a
\* negative average and not the one without an average.
GradeBoundariesExactWitness ==
    \/ /\ filters.grade = <<"B">>
       /\ Len(allStudents) = 2
       /\ allStudents[1].average_score = Num(849)
       /\ allStudents[2].average_score = Num(850)
       /\ filteredStudents = <<allStudents[1]>>
    \/ /\ filters.grade = <<"F">>
       /\ Len(allStudents) = 2
       /\ allStudents[1].average_score = Null
       /\ allStudents[2].average_score = Num(0 - 100)
       /\ filteredStudents = <<allStudents[2]>>

\* C26: the statistics strip and the analytics section show values computed
\* over the whole working set: whatever filter, search, sort, page and page
\* size are set, the record count and the subject averages of the strip, and
\* the record count, grade distribution, subject averages, score ranges,
\* hometown counts and top performers of a loaded analytics section, are
\* those of allStudents, so no change of these controls alters them while
\* the working set stays the same.
AnalyticsOverWholeSet ==
    /\ panel.stats = updateStats(allStudents)
    /\ panel.analytics.loaded =>
          /\ panel.analytics.data = analyzeLocalData(allStudents)
          /\ panel.analytics.top = TopPerformers(allStudents)

\* The analytics section was loaded while a filter hides a part of the
\* working set and the table is sorted by grade on a page size of 2.
AnalyticsOverWholeSetWitness ==
    /\ panel.section = "analytics"
    /\ panel.analytics.loaded
    /\ filters.grade = <<"A">>
    /\ Len(filteredStudents) < Len(allStudents)
    /\ filteredStudents # <<>>
    /\ currentSort.sortBy = "grade"
    /\ pageSize = 2
    /\ hist = Forget

\* The records of the working set whose average is defined and has the
\* letter grade.
WithLetter(grade) ==
    {i \in DOMAIN allStudents :
        /\ allStudents[i].average_score.t # "null"
        /\ LetterOf(allStudents[i].average_score) = grade}

\* C27: in the grade distribution of a loaded analytics section every record
\* with a defined average is counted in exactly one of the buckets A, B, C, D
\* and F, the one its average has by the grade thresholds, and a record
\* without an average is counted in none of them, so the five counts sum to
\* the number of records with a defined average.
GradeBucketsPartition ==
    panel.analytics.loaded =>
        /\ \A g \in GradeLetters :
              panel.analytics.data.grade_distribution[g] = Cardinality(WithLetter(g))
        /\ SumOf([k \in 1..5 |->
                     panel.analytics.data.grade_distribution[
                         <<<<"A">>, <<"B">>, <<"C">>, <<"D">>, <<"F">>>>[k]]])
               = Cardinality({i \in DOMAIN allStudents :
                                 allStudents[i].average_score.t # "null"})

\* The analytics section is loaded over a working set of an A record, a
\* record without an average and an F record: the counts are 1 for A, 1 for F
\* and 0 for the other letters.
GradeBucketsPartitionWitness ==
    /\ panel.analytics.loaded
    /\ Len(allStudents) = 3
    /\ allStudents[1].average_score = Num(900)
    /\ allStudents[2].average_score = Null
    /\ allStudents[3].average_score = Num(300)
    /\ panel.analytics.data.grade_distribution[<<"A">>] = 1
    /\ panel.analytics.data.grade_distribution[<<"F">>] = 1
    /\ panel.analytics.data.grade_distribution[<<"C">>] = 0

\* The trimmed hometown of the i-th record of the working set, empty for a
\* record without a hometown.
TrimmedHometown(i) ==
    IF allStudents[i].hometown.t = "str" THEN trim(allStudents[i].hometown.s) ELSE <<>>

\* C28: the hometown distribution of a loaded analytics section has one entry
\* per distinct trimmed, non-empty hometown of the working set, whose count
\* is the number of records with that hometown after trimming; a record whose
\* hometown is empty or only whitespace adds to no entry.
HometownsCountedTrimmed ==
    panel.analytics.loaded =>
        panel.analytics.data.hometownAnalysis
            = [h \in {TrimmedHometown(i) : i \in DOMAIN allStudents} \ {<<>>} |->
                  Cardinality({i \in DOMAIN allStudents : TrimmedHometown(i) = h})]

\* The scores of a subject in the working set: how many records have one, and
\* their sum.
SubjectCount(key) ==
    Cardinality({i \in DOMAIN allStudents : allStudents[i][key].t # "null"})

SubjectSum(key) ==
    SumOf([i \in DOMAIN allStudents |->
              IF allStudents[i][key].t = "null" THEN 0 ELSE allStudents[i][key].n])

\* The average of subject a is more than 1.0 above the average of subject b.
SubjectLeads(a, b) ==
    /\ SubjectCount(a) > 0
    /\ SubjectCount(b) > 0
    /\ SubjectSum(a) * SubjectCount(b) - SubjectSum(b) * SubjectCount(a)
           > 100 * SubjectCount(a) * SubjectCount(b)

HasInsight(kind) == \E i \in DOMAIN panel.analytics.insights : panel.analytics.insights[i] = kind

\* The records with grade A, and the records with at least one subject score.
ExcellentCount ==
    Cardinality({i \in DOMAIN allStudents :
                    /\ allStudents[i].average_score.t # "null"
                    /\ allStudents[i].average_score.n >= 850})

ScoredCount ==
    Cardinality({i \in DOMAIN allStudents :
                    \E key \in {"math_score", "literature_score", "english_score"} :
                        allStudents[i][key].t # "null"})

FieldErrors ==
    {fieldName \in {"student_id", "first_name", "last_name", "email", "birth_date",
                    "math_score", "literature_score", "english_score"} :
        ~validateField(fieldName, form.values[fieldName])}

\* C30: a submit of the student form issues the remote create or update only
\* if every registered field validator reports no error for the values the
\* form holds; a submit that is refused because of a validator's error makes
\* no remote call, leaves the modal open and starts no reload of the working
\* set.
SubmitOnlyWhenValid ==
    [][/\ (op.kind = "none" /\ op'.kind \in {"create", "update"}) => FieldErrors = {}
       /\ (form.open /\ FieldErrors # {}) =>
              /\ op'.kind \in {"create", "update"} => op' = op
              /\ (form'.submit = "invalid" /\ form.submit # "invalid") =>
                     /\ form'.open
                     /\ op' = op
                     /\ remote' = remote
                     /\ loads' = loads
                     /\ allStudents' = allStudents
       /\ (form'.submit = "invalid" /\ form.submit # "invalid") => FieldErrors # {}]_vars

\* A submit was refused for the math score 11 alone, in a form whose other
\* fields pass their validators: the modal is open and no request is awaited.
SubmitOnlyWhenValidWitness ==
    /\ form.open
    /\ form.submit = "invalid"
    /\ FieldErrors = {"math_score"}
    /\ form.values.math_score = <<"1", "1">>
    /\ op = NoOp
    /\ InFlight = {}

\* C31: re-running the pipeline with an unchanged working set, filters, sort,
\* page and page size leaves filteredStudents, the displayed page,
\* currentPage, totalPages and totalItems unchanged, however often it is done.
RerunChangesNothing ==
    [][RefreshDisplay =>
          UNCHANGED <<filteredStudents, students, currentPage, totalPages, totalItems>>]_vars

\* refreshDisplay has just run over a filtered set sorted in descending order
\* and shown from its second page.
RerunChangesNothingWitness ==
    /\ hist.pass.refresh
    /\ ~hist.pass.user
    /\ currentSort.order = "desc"
    /\ currentPage = 2
    /\ totalPages = 2
    /\ Len(students) = 1

\* A step in which the timer of the search box fires.
TimerFires == searchBox.timeout /\ ~searchBox'.timeout

\* A step in which the user types into the search box.
Types == searchBox'.value # searchBox.value /\ searchBox'.timeout

\* A step that runs the pipeline.
PipelineRuns == hist'.pass.user

RowsDone == IF imp.pc \in {"create", "update"} THEN imp.index ELSE Min(imp.index, Len(imp.students))

\* C33: import counts are conserved: when processStudentsThroughAPI returns
\* for n candidate rows, imported + updated + skipped + the number of errors
\* is n, each row adding one to exactly one of the four, and a row is counted
\* as imported or updated only when its create or update call succeeded.
ImportCountsConserved ==
    /\ [](/\ imp.imported + imp.updated + imp.skipped + Len(imp.apiErrors)
                = (IF imp.students = <<>> THEN 0 ELSE RowsDone)
          /\ (imp.pc = "done" /\ imp.students # <<>>) =>
                /\ imp.result.imported + imp.result.updated + imp.result.skipped
                      + Len(imp.result.errors) = Len(imp.students)
                /\ imp.result.imported = imp.imported
                /\ imp.result.updated = imp.updated
                /\ imp.result.skipped = imp.skipped)
    /\ [][/\ imp'.imported # imp.imported =>
                /\ imp.pc = "create"
                /\ imp'.imported = imp.imported + 1
                /\ Len(remote') = Len(remote) + 1
                /\ remote'[Len(remote')].student_id
                      = Str(imp.students[imp.index + 1].student_id)
          /\ imp'.updated # imp.updated =>
                /\ imp.pc = "update"
                /\ imp'.updated = imp.updated + 1
                /\ \E i \in DOMAIN remote' :
                      /\ remote'[i].id = imp.existingStudent
                      /\ remote'[i].first_name
                            = Str(imp.students[imp.index + 1].first_name)]_vars

\* An import of three rows has returned with one row created, one counted as
\* an error and the third updated or skipped.
ImportCountsConservedWitness ==
    /\ imp.pc = "done"
    /\ Len(imp.students) = 3
    /\ imp.result.imported = 1
    /\ Len(imp.result.errors) = 1
    /\ imp.result.updated + imp.result.skipped = 1

\* C34: when several reloads overlap, the working set that remains after all
\* of them have completed is the response of the reload that was started
\* last: a response to an earlier-started reload that arrives later never
\* overwrites the newer data.
NewestReloadWins ==
    (InFlight = {} /\ hist.newest.done) => allStudents = hist.newest.items

\* C35: the create-versus-update decision of a form submit matches the way
\* the modal was opened: a submit from a modal opened with "add student"
\* issues a create and one from a modal opened by editing record r issues an
\* update of r, also when an earlier editStudent request resolves after the
\* add modal was opened.
SubmitMatchesOpening ==
    [][(op = NoOp /\ op' # NoOp) =>
          IF hist.opened = 0
          THEN op'.kind = "create"
          ELSE op'.kind = "update" /\ op'.id = hist.opened]_vars

\* C36: once the reloads are over, the selected ids are ids of records of the
\* working set, so the count the export button shows is the number of records
\* "export selected" writes; and "select all" and its inverse change the
\* selection only for records of the current page.
SelectionWithinWorkingSet ==
    /\ [](/\ (InFlight = {} /\ op = NoOp) =>
                /\ selectedStudents \subseteq Ids(allStudents)
                /\ SelectedCount = Len(SelectedForExport))
    /\ [][\A id \in (selectedStudents' \ selectedStudents)
                       \cup (selectedStudents \ selectedStudents') :
              id \in Ids(students)]_vars

\* The view of the first page over the primed working set and controls.
FirstPageView == ComputeView(allStudents', filters', currentSort', 1, pageSize')

\* C37: every change of a filter value (search, hometown, grade, clear all)
\* and every change of the page size sets the current page to 1 before the
\* view is recomputed; a change of the sort column or direction keeps the
\* current page; a click on the active sort column toggles between ascending
\* and descending and a click on another column starts ascending.
ControlsResetPage ==
    [][/\ (filters' # filters \/ pageSize' # pageSize) =>
             /\ currentPage' = 1
             /\ filteredStudents' = FirstPageView.filteredStudents
             /\ totalPages' = FirstPageView.totalPages
             /\ students' = FirstPageView.students
       /\ currentSort' # currentSort =>
             /\ currentPage' = currentPage
             /\ filters' = filters
             /\ currentSort'.order =
                   (IF currentSort'.sortBy # currentSort.sortBy THEN "asc"
                    ELSE IF currentSort.order = "asc" THEN "desc" ELSE "asc")
             /\ students' = PageSlice(filteredStudents', currentPage, pageSize)]_vars

\* A filter change has just brought the table back from page 2 to page 1 of a
\* view sorted in descending order.
ControlsResetPageWitness ==
    /\ hist.pass.user
    /\ hist.pass.page = 2
    /\ currentPage = 1
    /\ filters # NoFilters
    /\ pageSize = 2
    /\ currentSort.order = "desc"
    /\ students # <<>>

\* C38: notifications are shown one at a time in the order in which show()
\* was called: the container displays at most one message, the messages
\* displayed so far followed by the queue are the messages passed to show()
\* so far, every message passed to show() is eventually displayed, and
\* isShowing is false only when the queue is empty and nothing is displayed.
NotificationsInOrder ==
    /\ [](/\ hist.notes.called = hist.notes.displayed \o notifications.queue
          /\ notifications.shown # NoMessage =>
                /\ hist.notes.displayed # <<>>
                /\ notifications.shown = hist.notes.displayed[Len(hist.notes.displayed)]
                /\ notifications.timer = "hide"
          /\ ~notifications.isShowing =>
                (notifications.queue = <<>> /\ notifications.shown = NoMessage)
          /\ notifications.isShowing <=> notifications.timer # "none")
    /\ \A k \in 1..MaxShown :
          (Len(hist.notes.called) >= k) ~> (Len(hist.notes.displayed) >= k)

\* Four messages were passed to show() while the first was displayed, and all
\* four have been displayed, in the order of the calls.
NotificationsInOrderWitness ==
    /\ hist.notes.called = <<"saved", "failed", "failed", "saved">>
    /\ hist.notes.displayed = hist.notes.called
    /\ ~notifications.isShowing

\* C39: activeRequests is never negative, the overlay is hidden exactly when
\* activeRequests is 0, and every hide() follows a show() of the same
\* operation, so that activeRequests counts the operations that have not
\* finished and the overlay is visible while there is one.
OverlayCountsOperations ==
    /\ loading.activeRequests >= 0
    /\ loading.hidden <=> loading.activeRequests = 0
    /\ loading.activeRequests = Cardinality(awaiting)
    /\ awaiting # {} => ~loading.hidden

====
